---- MODULE Spec2Model ----
(***************************************************************************)
(* NEXTMIND chat pipeline: cache -> fast path -> router -> tools ->        *)
(* synthesizer, as implemented by api/chat.py, agent/fast_path.py,         *)
(* agent/graph.py, agent/rag_classifier.py and agent/cache.py.             *)
(*                                                                         *)
(* Text is modelled as a sequence of lexical items (words or fixed         *)
(* phrases) joined by single spaces; a regular expression of the source    *)
(* is the set of items of the lexicon it matches, anchored expressions     *)
(* look at the first item only.  Python values are tagged records so that  *)
(* isinstance() checks and truthiness are computed as the code does.       *)
(***************************************************************************)
EXTENDS Integers, Sequences, FiniteSets, TLC

VARIABLES
    pc,       \* position of the handler (or of the function under call)
    payload,  \* ChatInput of the request in flight
    redisMode, \* the Redis server: "off" (REDIS_URL unset), "up" or "down"
    redisKV,  \* Redis strings of the chat cache: key -> raw value
    convLog,  \* Redis list holding the conversation history
    local,    \* locals of the handler
    state,    \* ChatState threaded through router/tools/synthesizer
    events,   \* collaborator calls made so far, in order
    result    \* what the handler (or function under call) returned

vars == <<pc, payload, redisMode, redisKV, convLog, local, state, events, result>>

(***************************************************************************)
(* Bounds                                                                  *)
(***************************************************************************)
MaxWords == 2      \* lexical items per message
MaxMetaKeys == 2   \* keys per request metadata mapping
MaxLines == 1      \* line items per structured payload
MaxOptions == 1    \* options of a /chat request set away from their default

(***************************************************************************)
(* Python values                                                           *)
(***************************************************************************)
None == [t |-> "none"]
Str(s) == [t |-> "str", v |-> s]
Bool(b) == [t |-> "bool", v |-> b]
List(s) == [t |-> "list", v |-> s]
Dict(f) == [t |-> "dict", v |-> f]
EmptyDict == Dict([k \in {} |-> None])

IsNone(x) == x.t = "none"
IsStr(x) == x.t = "str"
IsList(x) == x.t = "list"
IsDict(x) == x.t = "dict"

\* bool(x)
Truthy(x) ==
    CASE x.t = "none" -> FALSE
      [] x.t = "str" -> x.v # ""
      [] x.t = "bool" -> x.v
      [] x.t = "list" -> Len(x.v) > 0
      [] x.t = "dict" -> DOMAIN x.v # {}
      [] x.t = "int" -> x.v # 0
      [] x.t = "float" -> x.v.n # 0
      [] OTHER -> TRUE

\* d.get(k) on a dict value
Get(d, k) == IF k \in DOMAIN d.v THEN d.v[k] ELSE None
\* k in d
Has(d, k) == k \in DOMAIN d.v
\* a or b
Or(a, b) == IF Truthy(a) THEN a ELSE b
\* {**d, k: x}
With(d, k, x) == Dict([j \in (DOMAIN d.v) \cup {k} |-> IF j = k THEN x ELSE d.v[j]])

(***************************************************************************)
(* Lexicon                                                                 *)
(***************************************************************************)
LongFiller == "je voudrais simplement vous parler de quelque chose de nouveau"

Lexicon ==
    {"Bonjour", "merci", "qui es-tu", "portfolio", "devis", "prix", "fuite",
     "plomberie", "pdf", "historique", "total", "valid", "valide", "nettoi",
     "client", "cherche", "lexique", "c'est quoi", "philosoph", "xyz",
     "explique", "prefill", "c'est quoi un acompte", LongFiller}

\* str.lower() of one item
Lower(w) == IF w = "Bonjour" THEN "bonjour" ELSE w

RECURSIVE Join(_)
\* " ".join(items)
Join(m) ==
    IF m = <<>> THEN ""
    ELSE IF Len(m) = 1 THEN m[1]
    ELSE m[1] \o " " \o Join(Tail(m))

\* len(message.strip())
MsgLen(m) == Len(Join(m))

AnyItem(m, S) == \E i \in 1..Len(m) : Lower(m[i]) \in S
FirstItem(m, S) == m # <<>> /\ Lower(m[1]) \in S

\* fast_path.py
GREETING_RE(m) == FirstItem(m, {"bonjour"})
THANKS_RE(m) == AnyItem(m, {"merci"})
WHO_RE(m) == FirstItem(m, {"qui es-tu"})
REFERENCE_RE(m) == AnyItem(m, {"portfolio"})
FULL_PIPELINE_HINT_RE(m) == AnyItem(m, {"pdf", "historique", "prefill"})
FULL_PIPELINE_TERMS_RE(m) == AnyItem(m, {"devis", "prix", "fuite", "plomberie"})
FAST_PATH_DEFINITION_RE(m) == FirstItem(m, {"c'est quoi", "c'est quoi un acompte"})
FAST_PATH_META_RE(m) == AnyItem(m, {"philosoph"})

\* graph.py
LOOKUP_HINT_RE(m) == AnyItem(m, {"client", "historique", "prefill"})
LOOKUP_ACTION_RE(m) == AnyItem(m, {"cherche"})
TOTALS_HINT_RE(m) == AnyItem(m, {"total"})
CLEAN_HINT_RE(m) == AnyItem(m, {"nettoi"})
VALIDATE_HINT_RE(m) == AnyItem(m, {"valid"})
ANALYZE_HINT_RE(m) == AnyItem(m, {"pdf"})
DEVIS_TERMS_HINT_RE(m) == AnyItem(m, {"lexique"})
DEVIS_CONTEXT_RE(m) == AnyItem(m, {"devis"})
TERM_DEFINITION_RE(m) == AnyItem(m, {"c'est quoi", "c'est quoi un acompte"})
BTP_TERMS_LIKELY_RE(m) == AnyItem(m, {"plomberie", "c'est quoi un acompte"})

\* rag_classifier.py
RAG_HINT_RE(m) == AnyItem(m, {"historique"})
BTP_TECH_HINT_RE(m) == AnyItem(m, {"devis", "prix", "fuite", "plomberie"})

\* rag/retriever.py
CORPS_METIER_RE(m) == AnyItem(m, {"plomberie", "artisan", "isolation", "carrelage"})

\* "<substring>" in message.lower()
Contains(m, S) == AnyItem(m, S)

(***************************************************************************)
(* Strings                                                                 *)
(***************************************************************************)
\* s[i:i+1] and s[i-1:j], empty outside the text
Ch(s, i) == IF i < 1 \/ i > Len(s) THEN "" ELSE SubSeq(s, i, i)
Slice(s, i, j) ==
    IF i > Len(s) \/ j < i THEN "" ELSE SubSeq(s, i, IF j > Len(s) THEN Len(s) ELSE j)
IsSpace(c) == c \in {" ", "\n", "\t"}

\* the least and the greatest element of a finite set of integers
Least(S) == CHOOSE i \in S : \A j \in S : i <= j
Greatest(S) == 0 - Least({0 - i : i \in S})

RECURSIVE ConcatRange(_, _, _)
\* parts[lo] \o ... \o parts[hi], by halves
ConcatRange(parts, lo, hi) ==
    IF lo > hi THEN ""
    ELSE IF lo = hi THEN parts[lo]
    ELSE LET mid == (lo + hi) \div 2
         IN ConcatRange(parts, lo, mid) \o ConcatRange(parts, mid + 1, hi)

\* the first and the last position of s that hold no white space, 0 when
\* there is none
FirstInked(s) ==
    IF \A i \in 1..Len(s) : IsSpace(Ch(s, i)) THEN 0
    ELSE CHOOSE i \in 1..Len(s) :
            ~IsSpace(Ch(s, i)) /\ \A j \in 1..(i - 1) : IsSpace(Ch(s, j))
LastInked(s) ==
    IF \A i \in 1..Len(s) : IsSpace(Ch(s, i)) THEN 0
    ELSE Len(s) - (CHOOSE k \in 0..(Len(s) - 1) :
                      ~IsSpace(Ch(s, Len(s) - k)) /\ \A j \in 0..(k - 1) : IsSpace(Ch(s, Len(s) - j)))

LStrip(s) == IF FirstInked(s) = 0 THEN "" ELSE Slice(s, FirstInked(s), Len(s))

RStrip(s) == IF LastInked(s) = 0 THEN "" ELSE Slice(s, 1, LastInked(s))

\* str.strip()
Strip(s) == IF FirstInked(s) = 0 THEN "" ELSE Slice(s, FirstInked(s), LastInked(s))

\* str.rstrip(c)
RStripCh(s, c) ==
    LET other == {i \in 1..Len(s) : Ch(s, i) # c}
    IN IF other = {} THEN "" ELSE Slice(s, 1, Greatest(other))

\* str.replace(a, b) for one-character a
ReplaceCh(s, a, b) ==
    ConcatRange([i \in 1..Len(s) |-> IF Ch(s, i) = a THEN b ELSE Ch(s, i)], 1, Len(s))

\* the positions of c in s
Positions(s, c) == {i \in 1..Len(s) : Ch(s, i) = c}

\* str.count(c)
CountCh(s, c) == Cardinality(Positions(s, c))

FindFrom(s, c, i) ==
    LET at == {j \in Positions(s, c) : j >= i}
    IN IF at = {} THEN 0 ELSE Least(at)

\* str.find(c) + 1 (0 when absent)
Find(s, c) == FindFrom(s, c, 1)

RFindFrom(s, c, i) ==
    LET at == {j \in Positions(s, c) : j <= i}
    IN IF at = {} THEN 0 ELSE Greatest(at)

\* str.rfind(c) + 1 (0 when absent)
RFind(s, c) == RFindFrom(s, c, Len(s))

\* str.split(c)
Split(s, c) ==
    LET at == Positions(s, c)
        n == Cardinality(at)
        Cut(k) == IF k = 0 THEN 0
                  ELSE IF k = n + 1 THEN Len(s) + 1
                  ELSE CHOOSE p \in at : Cardinality({q \in at : q < p}) = k - 1
    IN [k \in 1..(n + 1) |-> Slice(s, Cut(k - 1) + 1, Cut(k) - 1)]

\* str.splitlines()
SplitLines(s) ==
    IF s = "" THEN <<>>
    ELSE LET parts == Split(s, "\n")
         IN IF parts[Len(parts)] = "" THEN SubSeq(parts, 1, Len(parts) - 1) ELSE parts

\* sep.join(parts)
JoinWith(parts, sep) ==
    ConcatRange([i \in 1..Len(parts) |-> IF i = 1 THEN parts[i] ELSE sep \o parts[i]], 1, Len(parts))

StartsWith(s, p) == Len(s) >= Len(p) /\ SubSeq(s, 1, Len(p)) = p
EndsWith(s, p) == Len(s) >= Len(p) /\ SubSeq(s, Len(s) - Len(p) + 1, Len(s)) = p

\* re.sub(r"\s+", " ", s)
CollapseSpaces(s) ==
    ConcatRange([i \in 1..Len(s) |->
                    IF ~IsSpace(Ch(s, i)) THEN Ch(s, i)
                    ELSE IF IsSpace(Ch(s, i - 1)) THEN ""
                    ELSE " "], 1, Len(s))

(***************************************************************************)
(* Outcomes of a call: a returned value or a raised exception              *)
(***************************************************************************)
Return(v) == [k |-> "return", v |-> v]
Raise(e) == [k |-> "raise", e |-> e]
Returned(r) == r.k = "return"
Raised(r) == r.k = "raise"

(***************************************************************************)
(* Model invocation: what a chat model call can produce.  "ctor_error" is  *)
(* ChatOpenAI(...) failing when the client is built, "raise" is ainvoke    *)
(* failing after the bound fallbacks, "ok" carries the message content.    *)
(***************************************************************************)
LlmCtorError == [k |-> "ctor_error"]
LlmRaise == [k |-> "raise"]
LlmOk(content) == [k |-> "ok", content |-> content]
NoCall == [k |-> "no_call"]

(***************************************************************************)
(* json.loads, as a table over the texts the models below can produce      *)
(***************************************************************************)
JsonError == [t |-> "error"]

JAnswer == "{\"answer\": \"Oui?\", \"question\": null}"
JAnswerQuestion == "{\"answer\": \"Oui\", \"question\": \"Quel type.\"}"
JBlankAnswer == "{\"answer\": \" \"}"
JNoAnswer == "{\"question\": \"Quoi\"}"
JEmptyList == "[]"

JRouteNone == "{\"use_rag\": false, \"tool\": null, \"intent\": \"chat\"}"
JRouteRag == "{\"use_rag\": true, \"tool\": null, \"intent\": \"chat\"}"
JRouteTotals == "{\"use_rag\": false, \"tool\": {\"name\": \"calculate_totals_tool\", \"args\": {}}, \"intent\": \"validate\"}"
JRouteValidate == "{\"tool\": {\"name\": \"validate_devis_tool\"}}"
JRouteExtract == "{\"tool\": {\"name\": \"extract_pdf_tool\", \"args\": {\"doc_type\": \"auto\"}}, \"intent\": \"analyze\"}"
JRouteLookup == "{\"tool\": {\"name\": \"supabase_lookup_tool\", \"args\": {\"query\": \"Dupont\"}}, \"intent\": \"lookup\"}"
JRouteLookupEmpty == "{\"tool\": {\"name\": \"supabase_lookup_tool\", \"args\": {\"query\": \" \"}}, \"use_rag\": \"yes\"}"
JRouteUnknown == "{\"tool\": {\"name\": \"render_pdf\", \"args\": {}}, \"intent\": \"export\"}"
JRouteTwoTools == "{\"tool\": [{\"name\": \"clean_lines_tool\"}, {\"name\": \"calculate_totals_tool\"}]}"
JRouteBadArgs == "{\"tool\": {\"name\": \"clean_lines_tool\", \"args\": \"lines\"}, \"use_rag\": true}"

JsonLoads(s) ==
    CASE s = JAnswer ->
           Dict([k \in {"answer", "question"} |-> IF k = "answer" THEN Str("Oui?") ELSE None])
      [] s = JAnswerQuestion ->
           Dict([k \in {"answer", "question"} |-> IF k = "answer" THEN Str("Oui") ELSE Str("Quel type.")])
      [] s = JBlankAnswer -> Dict([k \in {"answer"} |-> Str(" ")])
      [] s = JNoAnswer -> Dict([k \in {"question"} |-> Str("Quoi")])
      [] s = JEmptyList -> List(<<>>)
      [] s = JRouteNone ->
           Dict([k \in {"use_rag", "tool", "intent"} |->
                 CASE k = "use_rag" -> Bool(FALSE) [] k = "tool" -> None [] OTHER -> Str("chat")])
      [] s = JRouteRag ->
           Dict([k \in {"use_rag", "tool", "intent"} |->
                 CASE k = "use_rag" -> Bool(TRUE) [] k = "tool" -> None [] OTHER -> Str("chat")])
      [] s = JRouteTotals ->
           Dict([k \in {"use_rag", "tool", "intent"} |->
                 CASE k = "use_rag" -> Bool(FALSE)
                   [] k = "tool" -> Dict([j \in {"name", "args"} |->
                                          IF j = "name" THEN Str("calculate_totals_tool") ELSE EmptyDict])
                   [] OTHER -> Str("validate")])
      [] s = JRouteValidate ->
           Dict([k \in {"tool"} |-> Dict([j \in {"name"} |-> Str("validate_devis_tool")])])
      [] s = JRouteExtract ->
           Dict([k \in {"tool", "intent"} |->
                 IF k = "tool"
                 THEN Dict([j \in {"name", "args"} |->
                            IF j = "name" THEN Str("extract_pdf_tool")
                            ELSE Dict([a \in {"doc_type"} |-> Str("auto")])])
                 ELSE Str("analyze")])
      [] s = JRouteLookup ->
           Dict([k \in {"tool", "intent"} |->
                 IF k = "tool"
                 THEN Dict([j \in {"name", "args"} |->
                            IF j = "name" THEN Str("supabase_lookup_tool")
                            ELSE Dict([a \in {"query"} |-> Str("Dupont")])])
                 ELSE Str("lookup")])
      [] s = JRouteLookupEmpty ->
           Dict([k \in {"tool", "use_rag"} |->
                 IF k = "tool"
                 THEN Dict([j \in {"name", "args"} |->
                            IF j = "name" THEN Str("supabase_lookup_tool")
                            ELSE Dict([a \in {"query"} |-> Str(" ")])])
                 ELSE Str("yes")])
      [] s = JRouteUnknown ->
           Dict([k \in {"tool", "intent"} |->
                 IF k = "tool"
                 THEN Dict([j \in {"name", "args"} |->
                            IF j = "name" THEN Str("render_pdf") ELSE EmptyDict])
                 ELSE Str("export")])
      [] s = JRouteTwoTools ->
           Dict([k \in {"tool"} |->
                 List(<<Dict([j \in {"name"} |-> Str("clean_lines_tool")]),
                        Dict([j \in {"name"} |-> Str("calculate_totals_tool")])>>)])
      [] s = JRouteBadArgs ->
           Dict([k \in {"tool", "use_rag"} |->
                 IF k = "tool"
                 THEN Dict([j \in {"name", "args"} |->
                            IF j = "name" THEN Str("clean_lines_tool") ELSE Str("lines")])
                 ELSE Bool(TRUE)])
      [] OTHER -> JsonError

(***************************************************************************)
(* agent/fast_path.py                                                      *)
(***************************************************************************)
ReplyEmptyMessage == "Je peux t'aider sur tes devis/factures BTP. Quelle est ta question ?"
ReplyWho == "Je suis NEXTMIND, ton assistant IA BTP."
ReplyGreeting == "Bonjour ! Dis-moi ce dont tu as besoin."
ReplyThanks == "Avec plaisir. Tu veux que je t'aide sur quoi maintenant ?"
ReplyReference == "Oui. Exemples de projets references BTP."

ThanksMaxLen == 60
DefinitionMaxLen == 90

\* _heuristic_fast_reply
heuristic_fast_reply(message) ==
    IF message = <<>> THEN Str(ReplyEmptyMessage)
    ELSE IF WHO_RE(message) THEN Str(ReplyWho)
    ELSE IF GREETING_RE(message) THEN Str(ReplyGreeting)
    ELSE IF THANKS_RE(message) /\ MsgLen(message) < ThanksMaxLen THEN Str(ReplyThanks)
    ELSE IF REFERENCE_RE(message) THEN Str(ReplyReference)
    ELSE None

\* _has_structured_metadata
has_structured_metadata(metadata) ==
    IF ~IsDict(metadata) THEN FALSE
    ELSE IF IsDict(Get(metadata, "structured_payload")) THEN TRUE
    ELSE \E key \in {"customer_name", "client_name", "supplier_name", "line_items", "items",
                     "doc_type", "docType", "validate_section", "mode", "files"} :
            Has(metadata, key)

\* _should_use_full_pipeline
should_use_full_pipeline(message, metadata) ==
    IF has_structured_metadata(metadata) THEN TRUE
    ELSE IF message = <<>> THEN FALSE
    ELSE IF FULL_PIPELINE_HINT_RE(message) THEN TRUE
    ELSE FULL_PIPELINE_TERMS_RE(message)

\* _is_fast_path_candidate
is_fast_path_candidate(message) ==
    IF message = <<>> THEN TRUE
    ELSE IF GREETING_RE(message) \/ THANKS_RE(message) \/ WHO_RE(message) THEN TRUE
    ELSE IF FAST_PATH_META_RE(message) THEN TRUE
    ELSE FAST_PATH_DEFINITION_RE(message) /\ MsgLen(message) <= DefinitionMaxLen

\* is_corps_metier_question (rag/retriever.py)
is_corps_metier_question(message) ==
    IF message = <<>> THEN FALSE ELSE CORPS_METIER_RE(message)

\* the Markdown code fence (three backquotes), written here with apostrophes
Fence == "'''"
FenceJson == "'''json"

\* the two re.sub calls of _maybe_parse_json that drop a leading and a trailing code fence
StripFences(s) ==
    LET Unfenced(head) ==
            IF EndsWith(head, Fence) THEN RStrip(SubSeq(head, 1, Len(head) - Len(Fence))) ELSE head
    IN Unfenced(IF StartsWith(s, FenceJson) THEN LStrip(SubSeq(s, Len(FenceJson) + 1, Len(s)))
                ELSE IF StartsWith(s, Fence) THEN LStrip(SubSeq(s, Len(Fence) + 1, Len(s)))
                ELSE s)

\* the brace-delimited substring both _maybe_parse_json fall back to
BraceParse(s) ==
    LET Loaded(doc) == IF doc = JsonError THEN None ELSE doc
        Between(start, end) ==
            IF start # 0 /\ end # 0 /\ end > start
            THEN Loaded(JsonLoads(SubSeq(s, start, end)))
            ELSE None
    IN Between(Find(s, "{"), RFind(s, "}"))

\* fast_path._maybe_parse_json
fast_maybe_parse_json(text) ==
    LET Direct(cleaned, direct) == IF direct # JsonError THEN direct ELSE BraceParse(cleaned)
        Cleaned(cleaned) == Direct(cleaned, JsonLoads(cleaned))
    IN IF text = "" THEN None ELSE Cleaned(StripFences(Strip(text)))

\* _normalize_followup_question
normalize_followup_question(value) ==
    LET \* lines 225-228: the closing question mark, the whitespace
        Closed(q) ==
            Str(Strip(CollapseSpaces(IF ~EndsWith(q, "?") THEN RStripCh(q, ".") \o " ?" ELSE q)))
        \* lines 223-224: nothing after the first question mark
        FirstQuestion(q) ==
            Closed(IF Find(q, "?") # 0 THEN Strip(Split(q, "?")[1]) \o " ?" ELSE q)
        \* lines 219-222: the first line
        FirstLine(q) == IF q = "" THEN None ELSE FirstQuestion(Strip(SplitLines(q)[1]))
    IN IF ~Truthy(value) THEN None ELSE FirstLine(Strip(value.v))

\* FastPathPayload.model_validate: answer is a str of min_length 1, question a str or None
FastPathPayloadValid(parsed) ==
    /\ Has(parsed, "answer")
    /\ IsStr(Get(parsed, "answer"))
    /\ Len(Get(parsed, "answer").v) >= 1
    /\ (IsStr(Get(parsed, "question")) \/ IsNone(Get(parsed, "question")))

FallbackMaxLines == 6

NonBlankLines(text) ==
    LET Stripped(lns) == [i \in 1..Len(lns) |-> Strip(lns[i])]
        NotBlank(ln) == ln # ""
    IN SelectSeq(Stripped(SplitLines(text)), NotBlank)

\* try_fast_path, lines 301-318: the text that is returned when the JSON contract is not met
FastPathFallbackText(text) ==
    LET \* lines 312-315
        Collapsed(statements, kept_question) ==
            IF statements # "" /\ kept_question # ""
            THEN Str(statements \o "\n\n" \o kept_question \o " ?")
            ELSE Str(Strip(IF statements # "" THEN statements ELSE kept_question))
        \* lines 309-311
        Questions(parts) ==
            Collapsed(Strip(ReplaceCh(JoinWith(SubSeq(parts, 1, Len(parts) - 2), "?"), "?", ".")),
                      Strip(parts[Len(parts) - 1]))
        \* line 308
        Compact(compact) ==
            IF CountCh(compact, "?") > 1 THEN Questions(Split(compact, "?")) ELSE Str(compact)
        \* lines 304-306
        Kept(lines) ==
            IF lines = <<>> THEN None
            ELSE Compact(Strip(JoinWith(
                     SubSeq(lines, 1, IF Len(lines) < FallbackMaxLines THEN Len(lines)
                                      ELSE FallbackMaxLines), "\n")))
    IN Kept(NonBlankLines(text))

\* try_fast_path, lines 282-318: what is made of the content of the model's message
FastPathFromContent(content) ==
    LET \* lines 295-297
        Answered(answer, question) ==
            IF Truthy(question) THEN Str(Strip(answer) \o "\n\n" \o question.v)
            ELSE Str(Strip(answer))
        \* lines 288-299
        Parsed(text, parsed) ==
            IF IsDict(parsed) /\ FastPathPayloadValid(parsed)
            THEN Answered(ReplaceCh(Strip(Get(parsed, "answer").v), "?", "."),
                          normalize_followup_question(Get(parsed, "question")))
            ELSE FastPathFallbackText(text)
        \* lines 284-287
        Text(text) == IF text = "" THEN None ELSE Parsed(text, fast_maybe_parse_json(text))
    IN Text(IF IsStr(content) THEN content.v ELSE "")

\* the model step reached without a look at the static heuristics
FastPathCallsModelUnchecked(message, metadata) ==
    /\ ~is_corps_metier_question(message)
    /\ ~should_use_full_pipeline(message, metadata)
    /\ is_fast_path_candidate(message)

\* does try_fast_path reach its model step (line 270) ?
FastPathCallsModel(message, metadata) ==
    /\ ~Truthy(heuristic_fast_reply(message))
    /\ ~is_corps_metier_question(message)
    /\ ~should_use_full_pipeline(message, metadata)
    /\ is_fast_path_candidate(message)

\* try_fast_path without the try / except around the model call
try_fast_path_unguarded(message, metadata, llm) ==
    LET heuristic == heuristic_fast_reply(message)
    IN IF Truthy(heuristic) THEN Return(heuristic)
       ELSE IF is_corps_metier_question(message) THEN Return(None)
       ELSE IF should_use_full_pipeline(message, metadata) THEN Return(None)
       ELSE IF ~is_fast_path_candidate(message) THEN Return(None)
       ELSE IF message = <<>> THEN Return(Str(ReplyEmptyMessage))
       ELSE IF llm = LlmCtorError THEN Raise("get_fast_llm")
       ELSE IF llm = LlmRaise THEN Raise("ainvoke")
       ELSE Return(FastPathFromContent(llm.content))

\* try_fast_path; llm is the outcome of the cheap-model call when one is made
try_fast_path(message, metadata, llm) ==
    LET heuristic == heuristic_fast_reply(message)
    IN IF Truthy(heuristic) THEN Return(heuristic)
       ELSE IF is_corps_metier_question(message) THEN Return(None)
       ELSE IF should_use_full_pipeline(message, metadata) THEN Return(None)
       ELSE IF ~is_fast_path_candidate(message) THEN Return(None)
       ELSE IF message = <<>> THEN Return(Str(ReplyEmptyMessage))
       ELSE IF llm = LlmCtorError THEN Raise("get_fast_llm")
       ELSE IF llm = LlmRaise THEN Return(None)
       ELSE Return(FastPathFromContent(llm.content))

(***************************************************************************)
(* agent/graph.py: routing                                                 *)
(***************************************************************************)
\* names of the tools of the registry (AVAILABLE_TOOLS)
AVAILABLE_TOOLS ==
    {"extract_pdf_tool", "clean_lines_tool", "calculate_totals_tool",
     "validate_devis_tool", "supabase_lookup_tool"}

ALLOWED_TOOL_NAMES == AVAILABLE_TOOLS

\* str(x) of a value that is used as a text
PyStr(x) == IF IsStr(x) THEN x.v ELSE IF IsNone(x) THEN "None" ELSE "<object>"

ToolCall(name, args) == Dict([k \in {"name", "args"} |-> IF k = "name" THEN name ELSE args])

\* graph._maybe_parse_json; json.loads ignores surrounding white space
graph_maybe_parse_json(text) ==
    LET Direct(direct) == IF direct # JsonError THEN direct ELSE BraceParse(text)
    IN Direct(JsonLoads(Strip(text)))

\* _infer_user_role
infer_user_role(metadata) ==
    IF ~IsDict(metadata) THEN "particulier"
    ELSE LET raw == Lower(Strip(PyStr(Or(Or(Get(metadata, "user_role"), Get(metadata, "role")), Str("")))))
         IN IF raw \in {"professionnel", "pro", "professional"} THEN "professionnel" ELSE "particulier"

FlatFormKeys ==
    {"client_name", "customer_name", "client_address", "client_contact", "supplier_name",
     "supplier_address", "supplier_contact", "line_items", "items", "doc_type", "docType"}

\* the customer / supplier mapping built from the flat form fields
FlatParty(metadata, prefix, name) ==
    Dict([k \in {"name", "address", "contact", "siret", "tva_number"} |->
          CASE k = "name" -> name
            [] k = "address" -> Or(Get(metadata, prefix \o "_address"), Str(""))
            [] k = "contact" -> Or(Get(metadata, prefix \o "_contact"), Str(""))
            [] k = "siret" -> Or(Get(metadata, prefix \o "_siret"), None)
            [] OTHER -> Or(Get(metadata, prefix \o "_tva"), None)])

\* _structured_from_metadata
structured_from_metadata(metadata) ==
    IF ~IsDict(metadata) THEN None
    ELSE IF IsDict(Get(metadata, "structured_payload"))
    THEN LET structured == Get(metadata, "structured_payload")
         IN IF Has(structured, "doc_type") THEN structured
            ELSE With(structured, "doc_type", Str("quote"))
    ELSE IF ~(\E k \in FlatFormKeys : Has(metadata, k)) THEN None
    ELSE LET doc_type == Or(Str(Strip(PyStr(Or(Or(Get(metadata, "doc_type"), Get(metadata, "docType")),
                                                Str("quote"))))),
                            Str("quote"))
             raw_items == Or(Or(Get(metadata, "line_items"), Get(metadata, "items")), List(<<>>))
             line_items == IF IsList(raw_items) THEN raw_items ELSE List(<<>>)
             Noted(base) == IF Truthy(Get(metadata, "notes"))
                            THEN With(base, "notes", Get(metadata, "notes"))
                            ELSE base
         IN Noted(Dict([k \in {"doc_type", "customer", "supplier", "line_items"} |->
                         CASE k = "doc_type" -> doc_type
                           [] k = "customer" ->
                                FlatParty(metadata, "client",
                                          Or(Or(Get(metadata, "client_name"), Get(metadata, "customer_name")), Str("")))
                           [] k = "supplier" ->
                                FlatParty(metadata, "supplier", Or(Get(metadata, "supplier_name"), Str("")))
                           [] OTHER -> line_items]))

\* _extract_first_file
extract_first_file(metadata) ==
    IF ~IsDict(metadata) THEN None
    ELSE LET files == Get(metadata, "files")
         IN IF IsList(files) /\ Truthy(files) /\ IsStr(files.v[1]) /\ Strip(files.v[1].v) # ""
            THEN Str(Strip(files.v[1].v))
            ELSE None

LookupLimit == 8

\* _heuristic_tool_choice
heuristic_tool_choice(message, metadata, structured) ==
    LET mode == IF IsDict(metadata) THEN Lower(PyStr(Or(Get(metadata, "mode"), Str("")))) ELSE ""
        validate_section == IF IsDict(metadata) THEN Truthy(Get(metadata, "validate_section")) ELSE FALSE
        intent_validate == mode \in {"validate", "validation"} \/ validate_section \/ VALIDATE_HINT_RE(message)
        file_path == extract_first_file(metadata)
    IN IF intent_validate /\ IsDict(structured) /\ Has(structured, "line_items")
       THEN ToolCall(Str("validate_devis_tool"), Dict([k \in {"payload"} |-> structured]))
       ELSE IF IsDict(structured) /\ TOTALS_HINT_RE(message)
       THEN ToolCall(Str("calculate_totals_tool"),
                     Dict([k \in {"lines", "doc_type"} |->
                           IF k = "lines" THEN Or(Get(structured, "line_items"), List(<<>>))
                           ELSE Or(Get(structured, "doc_type"), Str("quote"))]))
       ELSE IF IsDict(structured) /\ CLEAN_HINT_RE(message)
       THEN ToolCall(Str("clean_lines_tool"),
                     Dict([k \in {"lines"} |-> Or(Get(structured, "line_items"), List(<<>>))]))
       ELSE IF Truthy(file_path) /\ ANALYZE_HINT_RE(message)
       THEN ToolCall(Str("extract_pdf_tool"),
                     Dict([k \in {"file_path", "doc_type"} |->
                           IF k = "file_path" THEN file_path
                           ELSE IF IsDict(structured)
                                THEN Str(PyStr(Or(Get(structured, "doc_type"), Str("auto"))))
                                ELSE Str("auto")]))
       ELSE IF LOOKUP_HINT_RE(message)
       THEN IF ~(LOOKUP_ACTION_RE(message) \/ Contains(message, {"historique"}) \/ Contains(message, {"prefill"}))
            THEN None
            ELSE LET lookup_mode == IF Contains(message, {"materiau"}) THEN "materials"
                                    ELSE IF Contains(message, {"historique"}) THEN "history"
                                    ELSE IF Contains(message, {"prefill"}) THEN "prefill"
                                    ELSE "auto"
                     customer == IF IsDict(structured) /\ IsDict(Get(structured, "customer"))
                                 THEN Get(structured, "customer") ELSE EmptyDict
                     query == IF IsDict(structured) THEN Or(Get(customer, "name"), None) ELSE None
                 IN ToolCall(Str("supabase_lookup_tool"),
                             Dict([k \in {"query", "mode", "limit"} |->
                                   CASE k = "query" -> query
                                     [] k = "mode" -> Str(lookup_mode)
                                     [] OTHER -> [t |-> "int", v |-> LookupLimit]]))
       ELSE None

\* the arguments of a tool call after the backfills of _validate_tool_call
\* (lines 376-400), None when the call is to be discarded
BackfilledArgs(name, args0, metadata, structured) ==
    LET \* lines 392-400
        Query(args, query, mode) ==
            IF IsNone(query) \/ (IsStr(query) /\ Strip(query.v) = "")
            THEN (IF mode # "prefill" THEN None ELSE With(args, "query", None))
            ELSE args
        Lookup(args) ==
            IF IsNone(args) THEN None
            ELSE IF name = Str("supabase_lookup_tool")
            THEN Query(args, Get(args, "query"), PyStr(Or(Get(args, "mode"), Str("auto"))))
            ELSE args
        \* lines 386-391
        File(args, file_path) ==
            IF Truthy(file_path) THEN With(args, "file_path", file_path) ELSE None
        Extract(args) ==
            Lookup(IF IsNone(args) THEN None
                   ELSE IF name = Str("extract_pdf_tool") /\ ~IsStr(Get(args, "file_path"))
                   THEN File(args, extract_first_file(metadata))
                   ELSE args)
        \* lines 380-385
        Lines(args) ==
            Extract(IF IsNone(args) THEN None
                    ELSE IF name \in {Str("calculate_totals_tool"), Str("clean_lines_tool")}
                            /\ ~IsList(Get(args, "lines"))
                    THEN (IF IsDict(structured)
                          THEN With(args, "lines", Or(Get(structured, "line_items"), List(<<>>)))
                          ELSE None)
                    ELSE args)
    \* lines 376-379
    IN Lines(IF name = Str("validate_devis_tool") /\ ~IsDict(Get(args0, "payload"))
             THEN (IF IsDict(structured) THEN With(args0, "payload", structured) ELSE None)
             ELSE args0)

\* _validate_tool_call without the test of the name against the registry
validate_tool_call_any_name(tool_call, metadata, structured) ==
    LET Checked(name, args) == IF IsNone(args) THEN None ELSE ToolCall(name, args)
        Named(name, args0) == Checked(name, BackfilledArgs(name, args0, metadata, structured))
    IN IF ~Truthy(tool_call) THEN None
       ELSE Named(Get(tool_call, "name"),
                  IF IsDict(Get(tool_call, "args")) THEN Get(tool_call, "args") ELSE EmptyDict)

\* _validate_tool_call; a discarded call is None
validate_tool_call(tool_call, metadata, structured) ==
    LET Checked(name, args) == IF IsNone(args) THEN None ELSE ToolCall(name, args)
        Named(name, args0) ==
            IF ~IsStr(name) \/ name.v \notin ALLOWED_TOOL_NAMES THEN None
            ELSE Checked(name, BackfilledArgs(name, args0, metadata, structured))
    IN IF ~Truthy(tool_call) THEN None
       ELSE Named(Get(tool_call, "name"),
                  IF IsDict(Get(tool_call, "args")) THEN Get(tool_call, "args") ELSE EmptyDict)

(***************************************************************************)
(* agent/rag_classifier.py                                                 *)
(***************************************************************************)
RagShortLen == 80

RagUndecided == [t |-> "undecided"]

\* _heuristic: Bool(..) or RagUndecided (None in the code)
rag_heuristic(message, metadata) ==
    IF message = <<>> THEN Bool(FALSE)
    ELSE IF IsDict(metadata)
            /\ (Lower(PyStr(Or(Get(metadata, "mode"), Str("")))) \in {"validate", "validation"}
                \/ Truthy(Get(metadata, "validate_section")))
    THEN Bool(FALSE)
    ELSE IF RAG_HINT_RE(message) THEN Bool(TRUE)
    ELSE IF BTP_TECH_HINT_RE(message) THEN Bool(TRUE)
    ELSE IF MsgLen(message) < RagShortLen /\ ~Truthy(metadata) THEN Bool(FALSE)
    ELSE RagUndecided

\* the text object the chat model returns when its content is empty: str(raw)
ReprOfMessage == "content='' additional_kwargs={} response_metadata={}"

\* does the classifier's answer contain "true" once stripped and lower-cased ?
SaysTrue(text) == Strip(text) \in {"true", "True", "true.", "TRUE"}

\* should_use_rag; cls is the outcome of the classifier call when one is made
should_use_rag(message, metadata, cls) ==
    LET heuristic == rag_heuristic(message, metadata)
    IN IF heuristic # RagUndecided THEN Return(heuristic.v)
       ELSE IF cls = LlmCtorError THEN Raise("get_fast_llm")
       ELSE IF cls = LlmRaise THEN Return(FALSE)
       ELSE LET content == IF Truthy(cls.content) THEN PyStr(cls.content) ELSE ReprOfMessage
            IN Return(SaysTrue(content))

(***************************************************************************)
(* agent/graph.py: router_node and tools_node                              *)
(***************************************************************************)
RagMaxChars == 900

Intents == {"chat", "validate", "analyze", "lookup"}

\* outcomes of the retriever: the vector-store client cannot be built, no
\* vector store is configured, the search fails, or documents come back
RetCtorError == [k |-> "ctor_error"]
RetNone == [k |-> "none"]
RetRaise == [k |-> "raise"]
RetDocs(docs) == [k |-> "docs", docs |-> docs]

Doc(content, meta) == [page_content |-> content, metadata |-> meta]

\* lines 504-521: the documents kept as context, truncated
RagContext(docs) ==
    LET Keep(d) == IsStr(d.page_content) /\ Strip(d.page_content.v) # ""
        kept == SelectSeq(docs, Keep)
    IN [i \in 1..Len(kept) |->
          [content |-> IF Len(kept[i].page_content.v) > RagMaxChars
                       THEN SubSeq(kept[i].page_content.v, 1, RagMaxChars) \o "..."
                       ELSE kept[i].page_content.v,
           metadata |-> IF IsDict(kept[i].metadata) THEN kept[i].metadata ELSE EmptyDict,
           score |-> None]]

\* line 408
RouterMetadata(st) == IF IsDict(st.metadata) THEN st.metadata ELSE EmptyDict

\* a router that asks its model about trade questions too
RouterBeforeAskingOnTrade(st) ==
    LET Decided(metadata, structured, call) ==
            [metadata |-> metadata, structured |-> structured, heuristic |-> call,
             trade |-> is_corps_metier_question(st.message),
             asks |-> IsNone(call)]
        Known(metadata, structured) ==
            Decided(metadata, structured,
                    validate_tool_call(heuristic_tool_choice(st.message, metadata, structured),
                                       metadata, structured))
        Read(metadata) ==
            Known(metadata, IF IsNone(st.structured_payload) THEN structured_from_metadata(metadata)
                            ELSE st.structured_payload)
    IN Read(RouterMetadata(st))

\* lines 407-417 and 436-443: the inputs of the router, its heuristic tool
\* decision, the trade question, and whether the router model is asked
RouterBefore(st) ==
    LET Decided(metadata, structured, call) ==
            [metadata |-> metadata, structured |-> structured, heuristic |-> call,
             trade |-> is_corps_metier_question(st.message),
             asks |-> IsNone(call) /\ ~is_corps_metier_question(st.message)]
        Known(metadata, structured) ==
            Decided(metadata, structured,
                    validate_tool_call(heuristic_tool_choice(st.message, metadata, structured),
                                       metadata, structured))
        Read(metadata) ==
            Known(metadata, IF IsNone(st.structured_payload) THEN structured_from_metadata(metadata)
                            ELSE st.structured_payload)
    IN Read(RouterMetadata(st))

\* line 443: is the router model asked ?
RouterCallsModel(st) == RouterBefore(st).asks

\* line 462: the parsed answer of the router model, None when the call fails
RouterParsed(llm) ==
    IF llm.k # "ok" THEN None
    ELSE graph_maybe_parse_json(IF Truthy(llm.content) THEN PyStr(llm.content) ELSE ReprOfMessage)

\* the intent read off the message alone, the selected tool being ignored
RouterLightIntentFromMessage(st, call) ==
    IF VALIDATE_HINT_RE(st.message) THEN "validate" ELSE "chat"

\* lines 419-429: the intent read off the heuristic tool call and the message
RouterLightIntent(st, call) ==
    IF Truthy(call) /\ Get(call, "name") = Str("validate_devis_tool") THEN "validate"
    ELSE IF Truthy(call) /\ Get(call, "name") = Str("extract_pdf_tool") THEN "analyze"
    ELSE IF Truthy(call) /\ Get(call, "name") = Str("supabase_lookup_tool") THEN "lookup"
    ELSE IF VALIDATE_HINT_RE(st.message) THEN "validate"
    ELSE "chat"

\* lines 467-478: the tool call the router model suggests, validated
RouterSuggestedCall(suggested, metadata, structured) ==
    IF IsDict(suggested)
    THEN validate_tool_call(ToolCall(Get(suggested, "name"), Or(Get(suggested, "args"), EmptyDict)),
                            metadata, structured)
    ELSE None

\* lines 419-484: the decisions taken once the router model has answered, or
\* was not asked: intent, tool call, use_rag before the final gate, whether
\* the final gate is taken and whether it asks the classifier model
RouterAfterModel(st, llm) ==
    LET Gate(before, parsed, answered, proposed) ==
            [before |-> before, parsed |-> parsed, answered |-> answered,
             intent |-> IF answered /\ IsStr(Get(parsed, "intent"))
                           /\ Get(parsed, "intent").v \in Intents
                        THEN Get(parsed, "intent").v
                        ELSE RouterLightIntent(st, before.heuristic),
             tool_call |-> IF answered
                           THEN RouterSuggestedCall(Get(parsed, "tool"), before.metadata,
                                                    before.structured)
                           ELSE before.heuristic,
             proposed |-> proposed,
             takes_gate |-> proposed /\ ~before.trade,
             asks_classifier |-> proposed /\ ~before.trade
                                 /\ rag_heuristic(st.message, before.metadata) = RagUndecided]
        Answered(before, parsed, answered) ==
            Gate(before, parsed, answered,
                 IF before.trade THEN TRUE
                 ELSE IF answered THEN Get(parsed, "use_rag") = Bool(TRUE)
                 ELSE FALSE)
        Parsed(before, parsed) == Answered(before, parsed, before.asks /\ IsDict(parsed))
    IN Parsed(RouterBefore(st), RouterParsed(llm))

\* router_node that forgets to pin the corpus of a trade question
RouterFilterTypeGeneral(st) == None

\* lines 436-438
RouterFilterType(st) == IF is_corps_metier_question(st.message) THEN Str("corps_metier") ELSE None

\* line 484: is the final gate taken, and does it ask the classifier model ?
RouterTakesGate(st, llm) == RouterAfterModel(st, llm).takes_gate
RouterCallsClassifier(st, llm) == RouterAfterModel(st, llm).asks_classifier

\* lines 484-488: use_rag after the final gate
GateUseRag(st, after, cls) ==
    LET Gated(gate) == IF Raised(gate) THEN FALSE ELSE gate.v
    IN IF after.takes_gate THEN Gated(should_use_rag(st.message, after.before.metadata, cls))
       ELSE after.proposed

RouterUseRag(st, llm, cls) == GateUseRag(st, RouterAfterModel(st, llm), cls)

\* router_node; llm, cls and ret are the outcomes of the calls it makes
router_node(st, llm, cls, ret) ==
    LET Out(after, use_rag) ==
            IF after.before.asks /\ llm = LlmCtorError THEN Raise("get_fast_llm")
            ELSE IF use_rag /\ ret = RetCtorError THEN Raise("create_client")
            ELSE Return(
                [user_role |-> IF Truthy(st.user_role) THEN st.user_role
                               ELSE Str(infer_user_role(after.before.metadata)),
                 structured_payload |-> after.before.structured,
                 intent |-> after.intent,
                 tool_call |-> after.tool_call,
                 use_rag |-> use_rag,
                 rag_filter_type |-> RouterFilterType(st),
                 rag_context |-> IF use_rag /\ ret.k = "docs"
                                 THEN RagContext(ret.docs) ELSE <<>>])
        Gated(after) == Out(after, GateUseRag(st, after, cls))
    IN Gated(RouterAfterModel(st, llm))

\* a call made to a collaborator, or a decision taken, by a stage
Call(ev, who, out) == [ev |-> ev, who |-> who, out |-> out]

\* the decisions router_node takes and the calls it makes, by block of the code
RouterCallParts(st, llm, cls, ret) ==
    LET Parts(after, use_rag) ==
            [stopped |-> after.before.asks /\ llm = LlmCtorError,
             \* lines 416-417, 436
             heuristic |-> <<Call("decide_tool", "heuristic", after.before.heuristic),
                             Call("decide_rag", "trade", after.before.trade)>>,
             \* lines 443-481
             model |-> IF ~after.before.asks THEN <<>>
                       ELSE IF llm = LlmCtorError THEN <<Call("llm", "router", llm)>>
                       ELSE IF IsDict(after.parsed)
                       THEN <<Call("llm", "router", llm),
                              Call("decide_tool", "llm", after.tool_call),
                              Call("decide_rag", "llm", after.proposed)>>
                       ELSE <<Call("llm", "router", llm)>>,
             \* lines 484-488
             gate |-> IF ~after.takes_gate THEN <<>>
                      ELSE (IF after.asks_classifier
                            THEN <<Call("llm", "rag_classifier", cls)>> ELSE <<>>)
                           \o <<Call("decide_rag", "gate", use_rag)>>,
             \* lines 491-500
             retrieval |-> IF use_rag
                           THEN <<Call("retriever", PyStr(RouterFilterType(st)), ret)>>
                           ELSE <<>>]
        Gated(after) == Parts(after, GateUseRag(st, after, cls))
    IN Gated(RouterAfterModel(st, llm))

\* router_node taking the final RAG gate before its heuristic tool decision
router_calls_gate_first(st, llm, cls, ret) ==
    LET Ordered(p) == IF p.stopped THEN p.heuristic \o p.model
                      ELSE p.gate \o p.retrieval \o p.heuristic \o p.model
    IN Ordered(RouterCallParts(st, llm, cls, ret))

\* router_node: the decisions it takes and the calls it makes, in the order of the code
router_calls(st, llm, cls, ret) ==
    LET Ordered(p) == IF p.stopped THEN p.heuristic \o p.model
                      ELSE p.heuristic \o p.model \o p.gate \o p.retrieval
    IN Ordered(RouterCallParts(st, llm, cls, ret))

\* outcomes of tool.invoke(args)
ToolOk(v) == [k |-> "ok", v |-> v]
ToolRaise == [k |-> "raise"]

IsListOfDicts(x) == IsList(x) /\ \A i \in 1..Len(x.v) : IsDict(x.v[i])

\* the args_schema of each tool (tools.py): do the arguments pass validation ?
ToolArgsValid(name, args) ==
    CASE name = "extract_pdf_tool" ->
           /\ IsStr(Get(args, "file_path"))
           /\ (~Has(args, "doc_type") \/ Get(args, "doc_type") \in {Str("quote"), Str("invoice"), Str("auto")})
      [] name = "clean_lines_tool" ->
           ~Has(args, "lines") \/ IsListOfDicts(Get(args, "lines"))
      [] name = "calculate_totals_tool" ->
           /\ (~Has(args, "lines") \/ IsListOfDicts(Get(args, "lines")))
           /\ (~Has(args, "doc_type") \/ Get(args, "doc_type") \in {Str("quote"), Str("invoice"), None})
      [] name = "validate_devis_tool" -> IsDict(Get(args, "payload"))
      [] name = "supabase_lookup_tool" ->
           /\ (IsNone(Get(args, "query")) \/ IsStr(Get(args, "query")))
           /\ (~Has(args, "mode")
               \/ Get(args, "mode") \in {Str("clients"), Str("materials"), Str("history"),
                                        Str("prefill"), Str("auto")})
           /\ (~Has(args, "limit") \/ Get(args, "limit").t = "int")
      [] OTHER -> FALSE

ToolError(message, name) ==
    Dict([k \in {"error", "tool"} |-> IF k = "error" THEN Str(message) ELSE name])

\* tools_node invoking the tool a second time when the first invocation fails
tools_node_retry(st, tool) ==
    LET tool_call == st.tool_call
        name == Get(tool_call, "name")
        args == IF IsDict(Get(tool_call, "args")) THEN Get(tool_call, "args") ELSE EmptyDict
    IN IF ~Truthy(tool_call) THEN [tool_result |-> None, calls |-> <<>>]
       ELSE IF ~IsStr(name) \/ name.v \notin AVAILABLE_TOOLS
       THEN [tool_result |-> ToolError("unknown_tool", name), calls |-> <<>>]
       ELSE IF tool.k = "ok"
       THEN [tool_result |-> tool.v, calls |-> <<Call("tool", name.v, args)>>]
       ELSE [tool_result |-> ToolError("tool failed", name),
             calls |-> <<Call("tool", name.v, args), Call("tool", name.v, args)>>]

\* tools_node; tool is the outcome of tool.invoke when the tool is invoked
tools_node(st, tool) ==
    LET tool_call == st.tool_call
        name == Get(tool_call, "name")
        args == IF IsDict(Get(tool_call, "args")) THEN Get(tool_call, "args") ELSE EmptyDict
    IN IF ~Truthy(tool_call) THEN [tool_result |-> None, calls |-> <<>>]
       ELSE IF ~IsStr(name) \/ name.v \notin AVAILABLE_TOOLS
       THEN [tool_result |-> ToolError("unknown_tool", name), calls |-> <<>>]
       ELSE IF tool.k = "ok"
       THEN [tool_result |-> tool.v, calls |-> <<Call("tool", name.v, args)>>]
       ELSE [tool_result |-> ToolError("tool failed", name), calls |-> <<Call("tool", name.v, args)>>]

\* does tools_node invoke a tool, and can the invocation succeed ?
ToolsInvokes(st) ==
    Truthy(st.tool_call) /\ IsStr(Get(st.tool_call, "name"))
    /\ Get(st.tool_call, "name").v \in AVAILABLE_TOOLS
ToolsArgsAccepted(st) ==
    ToolArgsValid(Get(st.tool_call, "name").v,
                  IF IsDict(Get(st.tool_call, "args")) THEN Get(st.tool_call, "args") ELSE EmptyDict)

\* prepare_state, lines 804-810: the state handed to the router
BaseState(message, history, metadata) ==
    [message |-> message,
     history |-> history,
     metadata |-> Or(metadata, EmptyDict),
     user_role |-> Str(infer_user_role(metadata)),
     structured_payload |-> structured_from_metadata(metadata),
     intent |-> "chat", tool_call |-> None, use_rag |-> FALSE, rag_filter_type |-> None,
     rag_context |-> <<>>, tool_result |-> None, reply |-> ""]

\* {**base, **routed}
Merge(st, upd) == [k \in DOMAIN st |-> IF k \in DOMAIN upd THEN upd[k] ELSE st[k]]

(***************************************************************************)
(* agent/graph.py: synthesis                                               *)
(***************************************************************************)
ReplySynthFailed == "Desole, une erreur s'est produite. Peux-tu reessayer ?"
ReplySynthEmpty == "Je n'ai pas reussi a generer une reponse. Peux-tu reformuler en 1 phrase ?"

RECURSIVE CoerceParts(_)
\* the loop of _coerce_text_content over the parts of a multi-part content
CoerceParts(parts) ==
    IF parts = <<>> THEN ""
    ELSE LET part == parts[1]
             text == IF IsDict(part)
                     THEN (IF IsStr(Get(part, "text")) THEN Get(part, "text").v
                           ELSE IF IsStr(Get(part, "content")) THEN Get(part, "content").v
                           ELSE "")
                     ELSE PyStr(part)
         IN text \o CoerceParts(Tail(parts))

\* _coerce_text_content
coerce_text_content(content) ==
    IF IsNone(content) THEN ""
    ELSE IF IsStr(content) THEN content.v
    ELSE IF IsList(content) THEN CoerceParts(content.v)
    ELSE PyStr(content)

\* synthesizer_node followed by synthesize's strip; llm is the outcome of the
\* call on the primary chain, llm2 the one of the call on the forced fallback
synthesize(llm, llm2) ==
    IF llm = LlmCtorError THEN Raise("ChatOpenAI")
    ELSE IF llm = LlmRaise THEN Return(ReplySynthFailed)
    ELSE LET reply == Strip(coerce_text_content(llm.content))
         IN IF reply # "" THEN Return(reply)
            ELSE IF llm2.k = "ok" /\ Strip(coerce_text_content(llm2.content)) # ""
            THEN Return(Strip(coerce_text_content(llm2.content)))
            ELSE Return(ReplySynthEmpty)

\* does synthesizer_node call the forced fallback model ?
SynthCallsFallback(llm) ==
    llm.k = "ok" /\ Strip(coerce_text_content(llm.content)) = ""

synthesize_calls(llm, llm2) ==
    <<Call("llm", "synthesizer", llm)>>
    \o (IF SynthCallsFallback(llm) THEN <<Call("llm", "synthesizer_fallback", llm2)>> ELSE <<>>)

(***************************************************************************)
(* json.dumps / json.loads of the flat objects kept in Redis: an object of *)
(* string members, the member "meta" / "metadata" being a nested object    *)
(***************************************************************************)
Quote == "\""
Backslash == "\\"

\* the body of a JSON string literal
JsonEscape(s) ==
    ConcatRange([i \in 1..Len(s) |->
                    CASE Ch(s, i) = Quote -> Backslash \o Quote
                      [] Ch(s, i) = Backslash -> Backslash \o Backslash
                      [] Ch(s, i) = "\n" -> Backslash \o "n"
                      [] Ch(s, i) = "\t" -> Backslash \o "t"
                      [] OTHER -> Ch(s, i)], 1, Len(s))

\* a JSON string literal written without escaping
JsonStringRaw(s) == Quote \o s \o Quote

JsonString(s) == Quote \o JsonEscape(s) \o Quote

\* reads a string literal whose body starts at position i: [ok, text, next]
ScanString(s, i, acc) ==
    LET \* the backslashes that stand right before position j, from i on
        Run(j) == CHOOSE r \in 0..(j - i) :
                      /\ r = j - i \/ Ch(s, j - 1 - r) # Backslash
                      /\ \A q \in 0..(r - 1) : Ch(s, j - 1 - q) = Backslash
        Escaped(j) == Run(j) % 2 = 1
        EscapeStart(j) == Ch(s, j) = Backslash /\ ~Escaped(j)
        quotes == {j \in i..Len(s) : Ch(s, j) = Quote /\ ~Escaped(j)}
        close == IF quotes = {} THEN Len(s) + 1 ELSE Least(quotes)
        Decoded(j) == CASE Ch(s, j) = "n" -> "\n" [] Ch(s, j) = "t" -> "\t"
                        [] Ch(s, j) = Quote -> Quote [] Ch(s, j) = Backslash -> Backslash
                        [] OTHER -> "?"
        bad == {j \in i..(close - 1) :
                   \/ (~Escaped(j) /\ Ch(s, j) = "\n")
                   \/ (Escaped(j) /\ Decoded(j) = "?")
                   \/ (EscapeStart(j) /\ j = Len(s))}
    IN IF quotes = {} \/ bad # {} THEN [ok |-> FALSE, text |-> "", next |-> i]
       ELSE [ok |-> TRUE,
             text |-> acc \o ConcatRange([j \in i..(close - 1) |->
                                             IF EscapeStart(j) THEN ""
                                             ELSE IF Escaped(j) THEN Decoded(j)
                                             ELSE Ch(s, j)], i, close - 1),
             next |-> close + 1]

\* the nested objects written under "meta" / "metadata"
MetaJson(meta) ==
    IF ~IsDict(meta) \/ ~Has(meta, "route") THEN "{}"
    ELSE "{" \o JsonString("route") \o ": " \o JsonString(Get(meta, "route").v) \o "}"

MetaFromJson(text) ==
    IF text = "{}" THEN EmptyDict
    ELSE LET head == "{" \o JsonString("route") \o ": " \o Quote
             body == ScanString(text, Len(head) + 1, "")
         IN IF StartsWith(text, head) /\ body.ok /\ Slice(text, body.next, Len(text)) = "}"
            THEN Dict([k \in {"route"} |-> Str(body.text)])
            ELSE JsonError

RECURSIVE ScanMembers(_, _, _)
\* reads the members of an object from position i on: a dict, or JsonError
ScanMembers(s, i, acc) ==
    LET \* what follows a member value that ends before position after
        Rest(after, seen) ==
            IF Slice(s, after, Len(s)) = "}" THEN seen
            ELSE IF Slice(s, after, after + 1) = ", " THEN ScanMembers(s, after + 2, seen)
            ELSE JsonError
        StrValue(name, val) ==
            IF val.ok THEN Rest(val.next, With(acc, name, Str(val.text))) ELSE JsonError
        Nested(name, close, value) ==
            IF value = JsonError THEN JsonError ELSE Rest(close + 1, With(acc, name, value))
        ObjValue(name, at, close) ==
            IF close = 0 THEN JsonError
            ELSE Nested(name, close, MetaFromJson(Slice(s, at, close)))
        Value(name, at) ==
            IF Ch(s, at) = Quote THEN StrValue(name, ScanString(s, at + 1, ""))
            ELSE ObjValue(name, at, FindFrom(s, "}", at))
        Member(key) ==
            IF ~key.ok \/ Slice(s, key.next, key.next + 1) # ": " THEN JsonError
            ELSE Value(key.text, key.next + 2)
    IN IF i > Len(s) \/ Ch(s, i) # Quote THEN JsonError
       ELSE Member(ScanString(s, i + 1, ""))

\* json.loads of an object text
ObjectLoads(raw) ==
    IF raw = "{}" THEN EmptyDict
    ELSE IF raw = "[]" THEN List(<<>>)
    ELSE IF StartsWith(raw, "{") THEN ScanMembers(raw, 2, EmptyDict)
    ELSE JsonError

(***************************************************************************)
(* agent/cache.py                                                          *)
(***************************************************************************)
\* str.lower() of a text over the alphabet of the lexicon
LowerStr(s) == ReplaceCh(s, "B", "b")

\* normalize_question
normalize_question(message) ==
    IF message = <<>> THEN ""
    ELSE CollapseSpaces(Strip(LowerStr(Join(message))))

CacheEntry(reply, meta) == [reply |-> reply, meta |-> meta]

CacheKeyPrefix == "nextmind:chat:"
CacheKey(normalized_question) == CacheKeyPrefix \o normalized_question

\* the Redis server as seen by one call: not configured, answering, failing
RedisModes == {"off", "up", "down"}

\* GET on the Redis strings: the raw value, or None
RedisGet(kv, key) == IF key \in DOMAIN kv THEN Str(kv[key]) ELSE None
\* SET
RedisSet(kv, key, raw) == [k \in (DOMAIN kv) \cup {key} |-> IF k = key THEN raw ELSE kv[k]]
\* DEL
RedisDel(kv, key) == [k \in (DOMAIN kv) \ {key} |-> kv[k]]

\* a lookup that never finds an entry
cache_get_miss(mode, kv, normalized_question) == None

\* lines 85-92: the entry made of a parsed payload
cache_entry_of(doc) ==
    IF doc = JsonError THEN None
    ELSE IF ~IsDict(doc) THEN None
    ELSE IF ~IsStr(Get(doc, "reply")) \/ Strip(Get(doc, "reply").v) = "" THEN None
    ELSE CacheEntry(Get(doc, "reply").v,
                    IF IsDict(Get(doc, "meta")) THEN Get(doc, "meta") ELSE None)

\* lines 77-83: the payload read from the raw value
cache_payload_of(raw) ==
    IF ~Truthy(raw) THEN None ELSE cache_entry_of(ObjectLoads(raw.v))

\* RedisChatCache.get: a CacheEntry or None
cache_get(mode, kv, normalized_question) ==
    IF mode = "off" \/ normalized_question = "" THEN None
    ELSE IF mode = "down" THEN None
    ELSE cache_payload_of(RedisGet(kv, CacheKey(normalized_question)))

\* the value RedisChatCache.set writes
CacheDumps(entry) ==
    "{" \o JsonString("reply") \o ": " \o JsonString(entry.reply) \o ", "
        \o JsonString("meta") \o ": " \o MetaJson(Or(entry.meta, EmptyDict)) \o "}"

\* RedisChatCache.set: the Redis strings afterwards and the value returned
cache_set(mode, kv, normalized_question, entry) ==
    IF mode = "off" \/ normalized_question = "" \/ entry.reply = ""
    THEN [kv |-> kv, ok |-> FALSE]
    ELSE IF mode = "down" THEN [kv |-> kv, ok |-> FALSE]
    ELSE [kv |-> RedisSet(kv, CacheKey(normalized_question), CacheDumps(entry)), ok |-> TRUE]

\* RedisChatCache.delete
cache_delete(mode, kv, normalized_question) ==
    IF mode = "off" \/ normalized_question = "" THEN [kv |-> kv, ok |-> FALSE]
    ELSE IF mode = "down" THEN [kv |-> kv, ok |-> FALSE]
    ELSE [kv |-> RedisDel(kv, CacheKey(normalized_question)), ok |-> TRUE]

(***************************************************************************)
(* agent/utils/conversation_store.py                                       *)
(***************************************************************************)
HistoryLimit == 10

\* datetime.now().isoformat(); time is not modelled
Timestamp == "2025-01-01T00:00:00"

\* json.dumps(message.__dict__)
StoreDumps(role, content, metadata) ==
    "{" \o JsonString("role") \o ": " \o JsonString(role) \o ", "
        \o JsonString("content") \o ": " \o JsonString(content) \o ", "
        \o JsonString("timestamp") \o ": " \o JsonString(Timestamp) \o ", "
        \o JsonString("metadata") \o ": " \o MetaJson(Or(metadata, EmptyDict)) \o "}"

\* ConversationStore.add_message: the Redis list afterwards
store_add_message(mode, log, conversation_id, role, content, metadata) ==
    IF mode = "off" \/ ~Truthy(conversation_id) \/ content = "" THEN log
    ELSE IF mode = "down" THEN log
    ELSE Append(log, StoreDumps(role, content, metadata))

\* ConversationStore.get_history: the parsed messages of the last `limit` entries
store_get_history(mode, log, conversation_id, limit) ==
    IF mode = "off" \/ ~Truthy(conversation_id) \/ limit <= 0 THEN <<>>
    ELSE IF mode = "down" THEN <<>>
    ELSE LET last == SubSeq(log, (IF Len(log) > limit THEN Len(log) - limit + 1 ELSE 1), Len(log))
             parsed == [i \in 1..Len(last) |-> ObjectLoads(last[i])]
             Valid(d) == IsDict(d) /\ IsStr(Get(d, "role")) /\ IsStr(Get(d, "content"))
         IN SelectSeq(parsed, Valid)

\* ConversationStore.clear_history
store_clear_history(mode, log, conversation_id) ==
    IF mode = "off" \/ ~Truthy(conversation_id) THEN log
    ELSE IF mode = "down" THEN log
    ELSE <<>>

(***************************************************************************)
(* agent/graph.py: generate_response_with_actions                          *)
(***************************************************************************)
\* _should_show_devis_terms_ui
should_show_devis_terms_ui(query) ==
    IF query = <<>> THEN FALSE
    ELSE IF DEVIS_CONTEXT_RE(query) /\ DEVIS_TERMS_HINT_RE(query) THEN TRUE
    ELSE IF TERM_DEFINITION_RE(query) /\ BTP_TERMS_LIKELY_RE(query) THEN TRUE
    ELSE Contains(query, {"devis"}) /\ Contains(query, {"explique"})

DevisTermsIntro == "Je vous aide a comprendre les termes techniques d'un devis BTP."
DevisTermsOutro == "Vous pouvez aussi me copier/coller une ligne du devis."

\* _build_devis_terms_ui_reply
build_devis_terms_ui_reply(query) ==
    LET payload_query == IF Contains(query, {"lexique"}) THEN "" ELSE Join(query)
    IN DevisTermsIntro \o "\n\n" \o Fence \o "devis-terms\n"
       \o "{" \o JsonString("query") \o ": " \o JsonString(payload_query) \o "}\n"
       \o Fence \o "\n\n" \o DevisTermsOutro

MaxQuickActions == 3

\* generate_response_with_actions: the response text and the ids of the quick actions
generate_response_with_actions(query, response_text) ==
    LET terms == IF should_show_devis_terms_ui(query) THEN <<"devis_terms">> ELSE <<>>
        checklist == IF Contains(query, {"fuite"}) THEN <<"generate_checklist">> ELSE <<>>
        estimate == IF Contains(query, {"prix", "devis"}) THEN <<"create_estimate">> ELSE <<>>
        photos == IF Contains(query, {"fuite"}) THEN <<"photo_guide">> ELSE <<>>
        actions == terms \o checklist \o estimate \o photos
        all == IF actions = <<>> THEN <<"generate_checklist">> ELSE actions
    IN [response |-> IF should_show_devis_terms_ui(query)
                     THEN build_devis_terms_ui_reply(query) ELSE response_text,
        quick_actions |-> SubSeq(all, 1, IF Len(all) > MaxQuickActions THEN MaxQuickActions ELSE Len(all))]

(***************************************************************************)
(* api/chat.py                                                             *)
(***************************************************************************)
\* _is_cacheable; history is the list handed to the pipeline
is_cacheable(metadata, history) ==
    IF history # <<>> THEN FALSE
    ELSE IF ~IsDict(metadata) \/ ~Truthy(metadata) THEN TRUE
    ELSE IF IsDict(Get(metadata, "structured_payload")) THEN FALSE
    ELSE ~(\E k \in {"line_items", "items", "client_name", "customer_name", "files", "validate_section"} :
             Has(metadata, k))

ContextMaxLen == 40

\* the items of the lexicon in which one of the context keywords occurs
ContextKeywordItems == {"total", "nettoi", "philosoph", "prefill"}

\* _is_context_dependent
is_context_dependent(query, history) ==
    IF history = <<>> THEN FALSE
    ELSE IF query = <<>> THEN FALSE
    ELSE IF MsgLen(query) < ContextMaxLen /\ Contains(query, ContextKeywordItems) THEN TRUE
    ELSE FirstItem(query, {"et"})

\* _tool_to_response_extras: (tool_result or {}, corrections, totals)
tool_to_response_extras(st) ==
    LET tool_call == IF IsDict(st.tool_call) THEN st.tool_call ELSE None
        fromTool == Truthy(tool_call) /\ IsDict(st.tool_result)
                    /\ Get(tool_call, "name") \in {Str("validate_devis_tool"), Str("calculate_totals_tool")}
    IN [tool_result |-> Or(st.tool_result, EmptyDict),
        corrections |-> IF fromTool THEN Or(Get(st.tool_result, "issues"), List(<<>>)) ELSE List(<<>>),
        totals |-> IF fromTool THEN Or(Get(st.tool_result, "totals"), EmptyDict) ELSE EmptyDict]

(***************************************************************************)
(* Request inputs                                                          *)
(***************************************************************************)
\* all messages of at most n items over the words W
Messages(W, n) == UNION {[1..k -> W] : k \in 0..n}

\* Scenario B of the specification: 10 x 20 at 20% VAT
Line1 ==
    Dict([k \in {"description", "quantity", "unit_price_ht", "vat_rate", "discount_rate"} |->
          CASE k = "description" -> Str("Peinture")
            [] k = "quantity" -> [t |-> "int", v |-> 10]
            [] k = "unit_price_ht" -> [t |-> "int", v |-> 20]
            [] k = "vat_rate" -> [t |-> "int", v |-> 20]
            [] OTHER -> [t |-> "int", v |-> 0]])

LineLists == {List(l) : l \in UNION {[1..k -> {Line1}] : k \in 0..MaxLines}}

\* a value a client can send where a list of lines is expected
NotAList == Str("a venir")

Customer == Dict([k \in {"name"} |-> Str("Dupont")])

\* metadata["structured_payload"] as sent by the form
StructuredPayloads ==
    {EmptyDict}
    \cup {Dict([k \in {"line_items"} |-> l]) : l \in LineLists \cup {NotAList}}
    \cup {Dict([k \in {"line_items", "customer"} |-> IF k = "customer" THEN Customer ELSE l]) :
            l \in LineLists}

MetaValues(key) ==
    CASE key = "structured_payload" -> StructuredPayloads \cup {Str("n/a")}
      [] key = "line_items" -> LineLists \cup {NotAList}
      [] key = "client_name" -> {Str("Dupont")}
      [] key = "client_address" -> {Str("1 rue des Lilas")}
      [] key = "supplier_name" -> {Str("ACME")}
      [] key = "files" -> {List(<<Str("devis.pdf")>>), List(<<>>)}
      [] key = "mode" -> {Str("validate")}
      [] key = "validate_section" -> {Str("client")}
      [] key = "doc_type" -> {Str("invoice")}
      [] key = "user_role" -> {Str("pro")}

\* None, {} and every mapping of at most n of the given keys to one of their values
Metadatas(keys, Values(_), n) ==
    {None} \cup
    {Dict(f) : f \in UNION {
        {g \in [D -> UNION {Values(k) : k \in keys}] : \A k \in D : g[k] \in Values(k)} :
        D \in {X \in SUBSET keys : Cardinality(X) <= n}}}

HistoryItem(role, content) == [role |-> role, content |-> content]

ChatInput(message, metadata, history, conversation_id, stream, clear_cache, clear_history) ==
    [message |-> message, metadata |-> metadata, history |-> history,
     conversation_id |-> conversation_id, stream |-> stream,
     clear_cache |-> clear_cache, clear_history |-> clear_history]

\* a call of a function of the pipeline outside a /chat request
PlainCall(message, metadata) == ChatInput(message, metadata, <<>>, None, FALSE, FALSE, FALSE)

NoLocal == [k \in {} |-> None]
NoState == [k \in {} |-> None]
NoResult == [k |-> "pending"]

(***************************************************************************)
(* SpecFast: try_fast_path called on every message and metadata            *)
(***************************************************************************)
FastWords == {"Bonjour", "merci", "devis", "plomberie", "c'est quoi", "xyz", LongFiller}

FastMetaKeys == {"structured_payload", "client_address", "mode"}

\* contents of the message returned by the cheap model
FastContents ==
    {None, Str(""), Str(" \n "), List(<<Str("Oui")>>),
     Str(JAnswer), Str(JAnswerQuestion), Str(JBlankAnswer), Str(JNoAnswer), Str(JEmptyList),
     Str(FenceJson \o "\n" \o JAnswerQuestion \o "\n" \o Fence),
     Str("Voici : " \o JAnswer),
     Str("Un acompte est une avance."),
     Str("Quel mur ?\nQuelle surface ?\n\nJe peux chiffrer")}

FastLlmOutcomes == {LlmCtorError, LlmRaise} \cup {LlmOk(c) : c \in FastContents}

InitFast ==
    /\ pc = "try_fast_path"
    /\ payload \in {PlainCall(m, md) : m \in Messages(FastWords, MaxWords), md \in Metadatas(FastMetaKeys, MetaValues, MaxMetaKeys)}
    /\ redisMode = "off"
    /\ redisKV = <<>>
    /\ convLog = <<>>
    /\ local = NoLocal
    /\ state = NoState
    /\ events = <<>>
    /\ result = NoResult

\* one call of try_fast_path(message, metadata=...)
TryFastPath ==
    /\ pc = "try_fast_path"
    /\ \E llm \in (IF FastPathCallsModel(payload.message, payload.metadata)
                   THEN FastLlmOutcomes ELSE {NoCall}) :
        /\ result' = try_fast_path(payload.message, payload.metadata, llm)
        /\ events' = IF llm = NoCall THEN events ELSE Append(events, [ev |-> "llm", who |-> "fast", out |-> llm])
    /\ pc' = "returned"
    /\ UNCHANGED <<payload, redisMode, redisKV, convLog, local, state>>

NextFast == TryFastPath

SpecFast == InitFast /\ [][NextFast]_vars

(***************************************************************************)
(* SpecRouter: prepare_state (router_node then tools_node) called on every *)
(* message and metadata, under every outcome of the calls it makes         *)
(***************************************************************************)
RouterWords == {"total", "valid", "plomberie", "fuite", "xyz"}

RouterMetaKeys == {"structured_payload", "files", "mode"}

\* contents of the message returned by the routing model
RouterContents ==
    {None, Str("Je ne sais pas"), Str(JEmptyList),
     Str(JRouteNone), Str(JRouteRag), Str(JRouteTotals), Str(JRouteValidate), Str(JRouteExtract),
     Str(JRouteLookup), Str(JRouteLookupEmpty), Str(JRouteUnknown), Str(JRouteTwoTools),
     Str(JRouteBadArgs),
     Str(FenceJson \o "\n" \o JRouteTotals \o "\n" \o Fence)}

RouterLlmOutcomes == {LlmCtorError, LlmRaise} \cup {LlmOk(c) : c \in RouterContents}

ClassifierOutcomes ==
    {LlmCtorError, LlmRaise, LlmOk(Str(" True")), LlmOk(Str("false")), LlmOk(Str(""))}

X10 == "xxxxxxxxxx"
X100 == X10 \o X10 \o X10 \o X10 \o X10 \o X10 \o X10 \o X10 \o X10 \o X10
\* a page longer than RagMaxChars
LongPage == X100 \o X100 \o X100 \o X100 \o X100 \o X100 \o X100 \o X100 \o X100 \o "y"

DocShort == Doc(Str("Une fuite se repere au compteur."), Dict([k \in {"type"} |-> Str("corps_metier")]))
DocBlank == Doc(Str(" "), None)
DocLong == Doc(Str(LongPage), None)

RetrieverOutcomes ==
    {RetCtorError, RetNone, RetRaise, RetDocs(<<>>), RetDocs(<<DocShort>>), RetDocs(<<DocBlank, DocLong>>)}

\* what a tool returns when it does not raise
ToolResults(name) ==
    CASE name = "validate_devis_tool" ->
           {Dict([k \in {"valid", "issues", "totals"} |->
                  CASE k = "valid" -> Bool(TRUE) [] k = "issues" -> List(<<>>)
                    [] OTHER -> Dict([j \in {"total_ttc"} |-> [t |-> "int", v |-> 240]])])}
      [] name = "calculate_totals_tool" ->
           {Dict([k \in {"totals", "issues"} |->
                  IF k = "issues" THEN List(<<Str("vat_missing_or_zero")>>)
                  ELSE Dict([j \in {"total_ttc"} |-> [t |-> "int", v |-> 240]])])}
      [] name = "clean_lines_tool" -> {Dict([k \in {"lines", "warnings"} |-> List(<<>>)])}
      [] name = "extract_pdf_tool" -> {Dict([k \in {"error"} |-> Str("file_not_found")])}
      [] OTHER -> {Dict([k \in {"results"} |-> EmptyDict])}

ToolOutcomes(st) ==
    IF ~ToolsInvokes(st) THEN {NoCall}
    ELSE IF ~ToolsArgsAccepted(st) THEN {ToolRaise}
    ELSE {ToolRaise} \cup {ToolOk(v) : v \in ToolResults(Get(st.tool_call, "name").v)}

InitRouter ==
    /\ pc = "router_node"
    /\ payload \in {PlainCall(m, md) : m \in Messages(RouterWords, MaxWords),
                                       md \in Metadatas(RouterMetaKeys, MetaValues, MaxMetaKeys)}
    /\ redisMode = "off"
    /\ redisKV = <<>>
    /\ convLog = <<>>
    /\ local = NoLocal
    /\ state = BaseState(payload.message, <<>>, payload.metadata)
    /\ events = <<>>
    /\ result = NoResult

\* routed = await router_node(base), the outcomes of its calls drawn from the given sets
RouterNodeWith(Llms, Classifiers, Retrievers) ==
    /\ pc = "router_node"
    /\ \E llm \in (IF RouterCallsModel(state) THEN Llms ELSE {NoCall}) :
       \E cls \in (IF RouterCallsClassifier(state, llm) THEN Classifiers ELSE {NoCall}) :
       \E ret \in (IF RouterUseRag(state, llm, cls) THEN Retrievers ELSE {NoCall}) :
       \E routed \in {router_node(state, llm, cls, ret)} :
         /\ events' = events \o router_calls(state, llm, cls, ret)
         /\ IF Raised(routed)
            THEN /\ pc' = "raised"
                 /\ result' = routed
                 /\ state' = state
            ELSE /\ pc' = "tools_node"
                 /\ result' = result
                 /\ state' = Merge(state, routed.v)
    /\ UNCHANGED <<payload, redisMode, redisKV, convLog, local>>

RouterNode == RouterNodeWith(RouterLlmOutcomes, ClassifierOutcomes, RetrieverOutcomes)

\* tool_state = await tools_node({**base, **routed}); return {**base, **routed, **tool_state}
ToolsNodeWith(Tools) ==
    /\ pc = "tools_node"
    /\ \E tool \in Tools :
       \E done \in {tools_node(state, tool)} :
            /\ events' = events \o done.calls
            /\ state' = [state EXCEPT !.tool_result = done.tool_result]
    /\ pc' = "prepared"
    /\ UNCHANGED <<payload, redisMode, redisKV, convLog, local, result>>

ToolsNode == ToolsNodeWith(ToolOutcomes(state))

NextRouter == RouterNode \/ ToolsNode

SpecRouter == InitRouter /\ [][NextRouter]_vars

(***************************************************************************)
(* Spec: one /chat request served by handle_chat_non_stream or by          *)
(* handle_chat_stream, against the Redis it finds                          *)
(***************************************************************************)
ChatWords == {"total", "c'est quoi un acompte"}

\* the messages of the requests: empty, a greeting, a greeting followed by a
\* question, asking for a total, asking what a term of a quote means
ChatMessages ==
    {<<>>, <<"Bonjour">>, <<"Bonjour", "c'est quoi un acompte">>, <<"total">>,
     <<"c'est quoi un acompte">>}

ChatMetaKeys == {"structured_payload", "client_address", "files"}

ChatMetaValues(key) ==
    CASE key = "structured_payload" -> {Dict([k \in {"line_items"} |-> List(<<Line1>>)])}
      [] key = "files" -> {List(<<Str("devis.pdf")>>)}
      [] OTHER -> MetaValues(key)

\* the options of a request a client can set away from their default;
\* clear_history comes with the conversation it clears
Options == {"stream", "clear_cache", "clear_history", "history", "conversation_id"}

ClientHistory == <<HistoryItem("user", "devis"), HistoryItem("assistant", "Quel devis.")>>

ChatInputs ==
    {ChatInput(m, md,
               IF "history" \in O THEN ClientHistory ELSE <<>>,
               IF "conversation_id" \in O \/ "clear_history" \in O THEN Str("c1") ELSE None,
               "stream" \in O, "clear_cache" \in O, "clear_history" \in O) :
        m \in ChatMessages,
        md \in Metadatas(ChatMetaKeys, ChatMetaValues, MaxMetaKeys) \ {EmptyDict},
        O \in {X \in SUBSET Options : Cardinality(X) <= MaxOptions}}

\* what an earlier request left in Redis
CachedReply == "Reponse deja donnee."
CachedEntries(p) ==
    IF normalize_question(p.message) = "" THEN {<<>>}
    ELSE {<<>>,
          RedisSet(<<>>, CacheKey(normalize_question(p.message)),
                   CacheDumps(CacheEntry(CachedReply, Dict([k \in {"route"} |-> Str("full")]))))}

PriorExchange ==
    <<StoreDumps("user", "devis", EmptyDict),
      StoreDumps("assistant", "Quel devis.", Dict([k \in {"route"} |-> Str("full")]))>>

ChatFastOutcomes ==
    {LlmCtorError, LlmRaise, LlmOk(Str("")), LlmOk(Str(JAnswer)), LlmOk(Str("Un acompte est une avance."))}

ChatRouterOutcomes == {LlmCtorError, LlmOk(Str(JRouteRag)), LlmOk(Str(JRouteTotals))}

ChatClassifierOutcomes == {LlmRaise, LlmOk(Str("true"))}

ChatRetrieverOutcomes == {RetCtorError, RetDocs(<<DocShort>>)}

SynthOutcomes == {LlmCtorError, LlmRaise, LlmOk(Str("")), LlmOk(Str(" Voici la reponse.\n"))}
SynthFallbackOutcomes == {LlmRaise, LlmOk(Str("Reponse courte."))}

\* outcomes of llm.astream: the client cannot be built, or tokens arrive and
\* the stream ends or fails
StreamCtorError == [k |-> "ctor_error"]
Stream(tokens, fails) == [k |-> "stream", tokens |-> tokens, fails |-> fails]
StreamOutcomes ==
    {StreamCtorError} \cup
    {Stream(<<>>, FALSE)} \cup
    {Stream(<<Str(" Voici "), Str(""), Str("la reponse.\n")>>, f) : f \in BOOLEAN}

RECURSIVE Concat(_)
\* "".join(chunks)
Concat(chunks) == IF chunks = <<>> THEN "" ELSE chunks[1] \o Concat(Tail(chunks))

\* stream_synthesize as consumed by the handler (lines 372-377): the tokens
\* yielded, then the stripped reply or the exception
stream_synthesize(s) ==
    IF s = StreamCtorError THEN [tokens |-> <<>>, out |-> Raise("ChatOpenAI")]
    ELSE LET texts == [i \in 1..Len(s.tokens) |-> coerce_text_content(s.tokens[i])]
             NonEmpty(t) == t # ""
             tokens == SelectSeq(texts, NonEmpty)
         IN [tokens |-> tokens,
             out |-> IF s.fails THEN Raise("astream") ELSE Return(Strip(Concat(tokens)))]

stream_synthesize_calls(s) ==
    <<Call("llm", "synthesizer", s)>>
    \o [i \in 1..Len(stream_synthesize(s).tokens) |-> Call("sse", "delta", stream_synthesize(s).tokens[i])]

Init ==
    /\ pc = "receive"
    /\ payload \in ChatInputs
    /\ redisMode \in RedisModes
    /\ redisKV \in (IF redisMode # "off" THEN CachedEntries(payload) ELSE {<<>>})
    /\ convLog \in (IF redisMode = "up" /\ Truthy(payload.conversation_id)
                    THEN {<<>>, PriorExchange} ELSE {<<>>})
    /\ local = NoLocal
    /\ state = NoState
    /\ events = <<>>
    /\ result = NoResult

\* cache.enabled and store.enabled
Enabled == redisMode # "off"

\* line 161 (294): the conversation the request names
ConversationId(p) ==
    IF Truthy(p.conversation_id) /\ Strip(p.conversation_id.v) # ""
    THEN Str(Strip(p.conversation_id.v)) ELSE None

\* lines 170-171 (303-304): the stored history taken as the history of the request
HistoryDump(p, stored_history) ==
    IF is_context_dependent(p.message, stored_history)
    THEN [i \in 1..Len(stored_history) |->
            HistoryItem(Get(stored_history[i], "role").v, Get(stored_history[i], "content").v)]
    ELSE p.history

\* lines 158-177 (292-309): keys, history, cacheability, clear_cache
Receive ==
    /\ pc = "receive"
    /\ \E normalized \in {normalize_question(payload.message)} :
       \E conversation_id \in {ConversationId(payload)} :
       \E clears \in {Enabled /\ Truthy(conversation_id) /\ payload.clear_history} :
       \E log \in {IF clears THEN store_clear_history(redisMode, convLog, conversation_id)
                   ELSE convLog} :
       \E reads \in {Enabled /\ Truthy(conversation_id) /\ payload.history = <<>>} :
       \E stored_history \in {IF reads
                              THEN store_get_history(redisMode, log, conversation_id, HistoryLimit)
                              ELSE <<>>} :
       \E history_dump \in {HistoryDump(payload, stored_history)} :
       \E cacheable \in {is_cacheable(payload.metadata, history_dump) /\ stored_history = <<>>} :
       \E deletes \in {Enabled /\ cacheable /\ payload.clear_cache} :
          /\ convLog' = log
          /\ redisKV' = IF deletes THEN cache_delete(redisMode, redisKV, normalized).kv ELSE redisKV
          /\ local' = [normalized |-> normalized, conversation_id |-> conversation_id,
                       history_dump |-> history_dump, stored_history |-> stored_history,
                       cacheable |-> cacheable, reply |-> ""]
          /\ events' = events
                \o (IF clears THEN <<Call("store", "clear_history", conversation_id)>> ELSE <<>>)
                \o (IF reads THEN <<Call("store", "get_history", stored_history)>> ELSE <<>>)
                \o (IF deletes THEN <<Call("cache", "delete", normalized)>> ELSE <<>>)
    /\ pc' = "cache_lookup"
    /\ UNCHANGED <<payload, redisMode, state, result>>

\* the messages sent on the SSE stream when a reply is complete
SseReply(route, text) ==
    <<Call("sse", "meta", route), Call("sse", "delta", text)>>

\* the body of the JSON response, or the data of the final "done" event
HitResponse(stream, enriched, conversation_id, meta) ==
    IF stream
    THEN [reply |-> enriched.response, quick_actions |-> enriched.quick_actions,
          conversation_id |-> conversation_id]
    ELSE [reply |-> enriched.response, quick_actions |-> enriched.quick_actions,
          conversation_id |-> conversation_id,
          raw_output |-> [cache |-> "hit", route |-> Get(meta, "route")],
          corrections |-> List(<<>>), totals |-> EmptyDict, missing_fields |-> List(<<>>)]

FastResponse(stream, enriched, conversation_id) ==
    IF stream
    THEN [reply |-> enriched.response, quick_actions |-> enriched.quick_actions,
          conversation_id |-> conversation_id]
    ELSE [reply |-> enriched.response, quick_actions |-> enriched.quick_actions,
          conversation_id |-> conversation_id,
          raw_output |-> [route |-> "fast"],
          corrections |-> List(<<>>), totals |-> EmptyDict, missing_fields |-> List(<<>>)]

FullResponse(enriched, conversation_id, st) ==
    [reply |-> enriched.response, quick_actions |-> enriched.quick_actions,
     conversation_id |-> conversation_id,
     raw_output |-> [route |-> "full", intent |-> st.intent, tool |-> st.tool_call,
                     tool_result |-> tool_to_response_extras(st).tool_result,
                     rag_used |-> st.rag_context # <<>>],
     corrections |-> tool_to_response_extras(st).corrections,
     totals |-> tool_to_response_extras(st).totals,
     missing_fields |-> List(<<>>)]

\* lines 179-195 (311-324): the cache lookup and the reply on a hit
CacheLookup ==
    /\ pc = "cache_lookup"
    /\ IF Enabled /\ local.cacheable
       THEN \E hit \in {cache_get(redisMode, redisKV, local.normalized)} :
            IF hit # None
            THEN \E enriched \in {generate_response_with_actions(payload.message, hit.reply)} :
                 /\ pc' = "done"
                 /\ result' = Return(HitResponse(payload.stream, enriched, local.conversation_id,
                                                 Or(hit.meta, EmptyDict)))
                 /\ events' = events \o <<Call("cache", "get", hit)>>
                       \o (IF payload.stream THEN SseReply("hit", enriched.response) ELSE <<>>)
            ELSE /\ pc' = "fast_path"
                 /\ result' = result
                 /\ events' = events \o <<Call("cache", "get", hit)>>
       ELSE /\ pc' = "fast_path"
            /\ UNCHANGED <<result, events>>
    /\ UNCHANGED <<payload, redisMode, redisKV, convLog, local, state>>

\* the two store.add_message calls that record an exchange
StoreExchange(log, conversation_id, message, reply, route) ==
    IF Enabled /\ Truthy(conversation_id)
    THEN store_add_message(redisMode,
             store_add_message(redisMode, log, conversation_id, "user", Join(message), EmptyDict),
             conversation_id, "assistant", reply, Dict([k \in {"route"} |-> Str(route)]))
    ELSE log

StoreExchangeCalls(conversation_id, message, reply) ==
    IF Enabled /\ Truthy(conversation_id)
    THEN <<Call("store", "add_message", Join(message)), Call("store", "add_message", reply)>>
    ELSE <<>>

\* lines 197-229 (326-358): the fast path and the reply it gives
FastPathWith(Llms) ==
    /\ pc = "fast_path"
    /\ \E llm \in (IF FastPathCallsModel(payload.message, payload.metadata)
                   THEN Llms ELSE {NoCall}) :
       \E fast \in {try_fast_path(payload.message, payload.metadata, llm)} :
       \E called \in {<<Call("call", "try_fast_path", payload.message)>>
                       \o (IF llm = NoCall THEN <<>> ELSE <<Call("llm", "fast", llm)>>)} :
       \E writes \in {Enabled /\ local.cacheable} :
          IF Raised(fast)
          THEN /\ pc' = "raised"
               /\ result' = fast
               /\ events' = events \o called
               /\ UNCHANGED <<redisKV, convLog, state>>
          ELSE IF Truthy(fast.v)
          THEN \E entry \in {CacheEntry(fast.v.v, Dict([k \in {"route"} |-> Str("fast")]))} :
               \E enriched \in {generate_response_with_actions(payload.message, fast.v.v)} :
               /\ pc' = "done"
               /\ redisKV' = IF writes THEN cache_set(redisMode, redisKV, local.normalized, entry).kv
                             ELSE redisKV
               /\ convLog' = StoreExchange(convLog, local.conversation_id, payload.message,
                                           enriched.response, "fast")
               /\ result' = Return(FastResponse(payload.stream, enriched, local.conversation_id))
               /\ events' = events \o called
                     \o (IF writes THEN <<Call("cache", "set", entry)>> ELSE <<>>)
                     \o (IF payload.stream THEN SseReply("fast", enriched.response) ELSE <<>>)
                     \o StoreExchangeCalls(local.conversation_id, payload.message, enriched.response)
               /\ state' = state
          ELSE /\ pc' = "router_node"
               /\ state' = BaseState(payload.message, local.history_dump, Or(payload.metadata, EmptyDict))
               /\ events' = events \o called
                     \o (IF payload.stream THEN <<Call("sse", "meta", "full")>> ELSE <<>>)
                     \o <<Call("call", "prepare_state", payload.message)>>
               /\ UNCHANGED <<redisKV, convLog, result>>
    /\ UNCHANGED <<payload, redisMode, local>>

FastPath == FastPathWith(ChatFastOutcomes)

ChatRouterNode == RouterNodeWith(ChatRouterOutcomes, ChatClassifierOutcomes, ChatRetrieverOutcomes)

\* line 236: reply = await synthesize(state)
SynthesizeWith(Llms, Fallbacks) ==
    /\ pc = "prepared"
    /\ ~payload.stream
    /\ \E llm \in Llms :
       \E llm2 \in (IF SynthCallsFallback(llm) THEN Fallbacks ELSE {NoCall}) :
       \E reply \in {synthesize(llm, llm2)} :
            /\ events' = events \o <<Call("call", "synthesize", payload.message)>>
                                \o synthesize_calls(llm, llm2)
            /\ IF Raised(reply)
               THEN /\ pc' = "raised"
                    /\ result' = reply
                    /\ local' = local
               ELSE /\ pc' = "respond"
                    /\ result' = result
                    /\ local' = [local EXCEPT !.reply = reply.v]
    /\ UNCHANGED <<payload, redisMode, redisKV, convLog, state>>

Synthesize == SynthesizeWith(SynthOutcomes, SynthFallbackOutcomes)

\* lines 372-377: the tokens of stream_synthesize forwarded as delta events
StreamSynthesizeWith(Streams) ==
    /\ pc = "prepared"
    /\ payload.stream
    /\ \E s \in Streams :
       \E run \in {stream_synthesize(s)} :
            /\ events' = events \o <<Call("call", "stream_synthesize", payload.message)>>
                                \o stream_synthesize_calls(s)
            /\ IF Raised(run.out)
               THEN /\ pc' = "raised"
                    /\ result' = run.out
                    /\ local' = local
               ELSE /\ pc' = "respond"
                    /\ result' = result
                    /\ local' = [local EXCEPT !.reply = run.out.v]
    /\ UNCHANGED <<payload, redisMode, redisKV, convLog, state>>

StreamSynthesize == StreamSynthesizeWith(StreamOutcomes)

\* lines 237-286 (378-424): enrichment, cache write, history write, reply
Respond ==
    /\ pc = "respond"
    /\ \E enriched \in {generate_response_with_actions(payload.message, local.reply)} :
       \E writes \in {Enabled /\ local.cacheable /\ local.reply # ""} :
       \E entry \in {CacheEntry(local.reply, Dict([k \in {"route"} |-> Str("full")]))} :
          /\ redisKV' = IF writes THEN cache_set(redisMode, redisKV, local.normalized, entry).kv
                        ELSE redisKV
          /\ convLog' = StoreExchange(convLog, local.conversation_id, payload.message,
                                      enriched.response, "full")
          /\ result' = Return(FullResponse(enriched, local.conversation_id, state))
          /\ events' = events
                \o (IF writes THEN <<Call("cache", "set", entry)>> ELSE <<>>)
                \o StoreExchangeCalls(local.conversation_id, payload.message, enriched.response)
    /\ pc' = "done"
    /\ UNCHANGED <<payload, redisMode, local, state>>

Next ==
    \/ Receive
    \/ CacheLookup
    \/ FastPath
    \/ ChatRouterNode
    \/ ToolsNode
    \/ Synthesize
    \/ StreamSynthesize
    \/ Respond

Spec == Init /\ [][Next]_vars

(***************************************************************************)
(* SpecBoth: one request handled by handle_chat_non_stream, then the same  *)
(* request handled by handle_chat_stream on the same Redis contents, every *)
(* model, retriever and tool answering as it did the first time            *)
(***************************************************************************)
NoFirst == [k |-> "none"]

\* a request, what Redis holds when it arrives, and the first handling of it
BothInput(p, kv, log) ==
    [message |-> p.message, metadata |-> p.metadata, history |-> p.history,
     conversation_id |-> p.conversation_id, stream |-> FALSE,
     clear_cache |-> p.clear_cache, clear_history |-> p.clear_history,
     kv0 |-> kv, log0 |-> log, first |-> NoFirst]

InitBoth ==
    /\ pc = "receive"
    /\ redisMode \in RedisModes
    /\ payload \in UNION {{BothInput(p, kv, log) :
                               kv \in (IF redisMode # "off" THEN CachedEntries(p) ELSE {<<>>}),
                               log \in (IF redisMode = "up" /\ Truthy(p.conversation_id)
                                        THEN {<<>>, PriorExchange} ELSE {<<>>})} :
                          p \in {q \in ChatInputs : ~q.stream}}
    /\ redisKV = payload.kv0
    /\ convLog = payload.log0
    /\ local = NoLocal
    /\ state = NoState
    /\ events = <<>>
    /\ result = NoResult

\* what the collaborator answered during the first handling
FirstOutcomes(ev, whos) ==
    {payload.first.events[i].out :
        i \in {j \in 1..Len(payload.first.events) :
                  payload.first.events[j].ev = ev /\ payload.first.events[j].who \in whos}}

\* the collaborator answers as it did the first time, when it was asked then
Replayed(ev, whos, S) ==
    IF payload.first = NoFirst THEN S
    ELSE IF FirstOutcomes(ev, whos) = {} THEN S
    ELSE FirstOutcomes(ev, whos)

\* the same answer of the synthesis model, delivered by astream
StreamOf(llm) ==
    IF llm = LlmCtorError THEN StreamCtorError
    ELSE IF llm = LlmRaise THEN Stream(<<>>, TRUE)
    ELSE Stream(<<llm.content>>, FALSE)

\* the tool gives the result it gave the first time
ReplayedTools ==
    IF payload.first = NoFirst THEN ToolOutcomes(state)
    ELSE IF payload.first.state = NoState THEN ToolOutcomes(state)
    ELSE IF \E t \in ToolOutcomes(state) :
               tools_node(state, t).tool_result = payload.first.state.tool_result
    THEN {t \in ToolOutcomes(state) :
             tools_node(state, t).tool_result = payload.first.state.tool_result}
    ELSE ToolOutcomes(state)

BothFastPath == FastPathWith(Replayed("llm", {"fast"}, ChatFastOutcomes))

BothRouterNode ==
    RouterNodeWith(Replayed("llm", {"router"}, ChatRouterOutcomes),
                   Replayed("llm", {"rag_classifier"}, ChatClassifierOutcomes),
                   Replayed("retriever", {"None", "corps_metier"}, ChatRetrieverOutcomes))

BothToolsNode == ToolsNodeWith(ReplayedTools)

BothSynthesize == SynthesizeWith(SynthOutcomes, SynthFallbackOutcomes)

BothStreamSynthesize ==
    StreamSynthesizeWith({StreamOf(llm) : llm \in Replayed("llm", {"synthesizer"}, SynthOutcomes)})

\* the request is sent again, to the streaming handler
SendToStream ==
    /\ pc \in {"done", "raised"}
    /\ payload.first = NoFirst
    /\ payload' = [payload EXCEPT !.stream = TRUE,
                                  !.first = [pc |-> pc, result |-> result, kv |-> redisKV,
                                             log |-> convLog, events |-> events, state |-> state]]
    /\ pc' = "receive"
    /\ redisKV' = payload.kv0
    /\ convLog' = payload.log0
    /\ local' = NoLocal
    /\ state' = NoState
    /\ events' = <<>>
    /\ result' = NoResult
    /\ UNCHANGED redisMode

NextBoth ==
    \/ Receive
    \/ CacheLookup
    \/ BothFastPath
    \/ BothRouterNode
    \/ BothToolsNode
    \/ BothSynthesize
    \/ BothStreamSynthesize
    \/ Respond
    \/ SendToStream

SpecBoth == InitBoth /\ [][NextBoth]_vars

(***************************************************************************)
(* SpecTwo: two requests with the same message, one after the other, on    *)
(* the same Redis; the second may come with other metadata                 *)
(***************************************************************************)
TwoMessages == {<<"total">>, <<"c'est quoi un acompte">>, <<"Bonjour", "c'est quoi un acompte">>}

TwoMetaKeys == {"user_role", "mode", "client_address"}

TwoMetadatas == Metadatas(TwoMetaKeys, MetaValues, MaxMetaKeys)

TwoInput(m, md) ==
    [message |-> m, metadata |-> md, history |-> <<>>, conversation_id |-> None,
     stream |-> FALSE, clear_cache |-> FALSE, clear_history |-> FALSE, first |-> NoFirst]

InitTwo ==
    /\ pc = "receive"
    /\ payload \in {TwoInput(m, md) : m \in TwoMessages, md \in TwoMetadatas}
    /\ redisMode \in RedisModes
    /\ redisKV = <<>>
    /\ convLog = <<>>
    /\ local = NoLocal
    /\ state = NoState
    /\ events = <<>>
    /\ result = NoResult

\* the next request: the same message, any metadata, Redis as the first left it
SendNext ==
    /\ pc \in {"done", "raised"}
    /\ payload.first = NoFirst
    /\ \E md \in TwoMetadatas :
          payload' = [payload EXCEPT !.metadata = md,
                                     !.first = [pc |-> pc, metadata |-> payload.metadata,
                                                result |-> result, events |-> events]]
    /\ pc' = "receive"
    /\ local' = NoLocal
    /\ state' = NoState
    /\ events' = <<>>
    /\ result' = NoResult
    /\ UNCHANGED <<redisMode, redisKV, convLog>>

NextTwo ==
    \/ Receive
    \/ CacheLookup
    \/ FastPath
    \/ ChatRouterNode
    \/ ToolsNode
    \/ Synthesize
    \/ Respond
    \/ SendNext

SpecTwo == InitTwo /\ [][NextTwo]_vars

(***************************************************************************)
(* SpecCache: RedisChatCache.set followed by RedisChatCache.get, for the   *)
(* keys and the entries the handlers write                                 *)
(***************************************************************************)
\* replies the fast path and the synthesizer produce
CacheReplies ==
    {ReplyGreeting, ReplyWho, "Un \"acompte\" est une avance.",
     "Poste 1 : 50 %\nC:\\devis\ta voir"}

CacheMetas == {Dict([k \in {"route"} |-> Str(r)]) : r \in {"fast", "full"}}

InitCache ==
    /\ pc = "cache_set"
    /\ payload \in {PlainCall(m, None) : m \in Messages(ChatWords, MaxWords)}
    /\ redisMode \in RedisModes \ {"off"}
    /\ redisKV \in CachedEntries(payload)
    /\ convLog = <<>>
    /\ local \in {[normalized |-> normalize_question(payload.message), entry |-> CacheEntry(r, m)] :
                    r \in CacheReplies, m \in CacheMetas}
    /\ state = NoState
    /\ events = <<>>
    /\ result = NoResult

\* await cache.set(normalized, entry)
CacheSet ==
    /\ pc = "cache_set"
    /\ redisKV' = cache_set(redisMode, redisKV, local.normalized, local.entry).kv
    /\ result' = Return(Bool(cache_set(redisMode, redisKV, local.normalized, local.entry).ok))
    /\ events' = Append(events, Call("cache", "set", local.entry))
    /\ pc' = "cache_get"
    /\ UNCHANGED <<payload, redisMode, convLog, local, state>>

\* await cache.get(normalized)
CacheGet ==
    /\ pc = "cache_get"
    /\ result' = Return(cache_get(redisMode, redisKV, local.normalized))
    /\ events' = Append(events, Call("cache", "get", cache_get(redisMode, redisKV, local.normalized)))
    /\ pc' = "done"
    /\ UNCHANGED <<payload, redisMode, redisKV, convLog, local, state>>

NextCache == CacheSet \/ CacheGet

SpecCache == InitCache /\ [][NextCache]_vars

(***************************************************************************)
(* agent/config.py: LLMWithRetry around primary.with_fallbacks([fallback]) *)
(***************************************************************************)
\* stop_after_attempt(3)
RetryMaxAttempts == 3
\* wait_exponential(multiplier=1, min=2, max=10)
RetryWaitMultiplier == 1
RetryWaitMin == 2
RetryWaitMax == 10

\* the exceptions a model invocation raises: provider errors, and one that
\* is not a provider error
TransientErrors == {"RateLimitError", "APITimeoutError", "APIConnectionError"}
OtherErrors == {"ValueError"}

\* retry_if_exception_type((RateLimitError, APIConnectionError, APITimeoutError, APIError))
RetriedErrors == {"RateLimitError", "APIConnectionError", "APITimeoutError", "APIError"}

LlmFail(e) == [k |-> "raise", e |-> e]

\* one pass over the chain primary.with_fallbacks([fallback]): the outcome of
\* the invocation of each model, the fallback's one being read only when the
\* primary raises
Pass(primary, fallback) == [primary |-> primary, fallback |-> fallback]

\* self._llm.invoke / self._llm.ainvoke on the chain: the primary model, then
\* the fallback model when the primary raises; the first error when both raise
with_fallbacks_invoke(pass) ==
    IF pass.primary.k = "ok"
    THEN [out |-> Return(pass.primary.content),
          calls |-> <<Call("llm", "primary", pass.primary)>>]
    ELSE [out |-> IF pass.fallback.k = "ok" THEN Return(pass.fallback.content)
                  ELSE Raise(pass.primary.e),
          calls |-> <<Call("llm", "primary", pass.primary),
                      Call("llm", "fallback", pass.fallback)>>]

\* a stop that lets a fourth attempt be made
retry_stop_after_four(attempt_number) == attempt_number >= RetryMaxAttempts + 1

\* stop_after_attempt(3): no attempt follows the third one
retry_stop(attempt_number) == attempt_number >= RetryMaxAttempts

\* wait_exponential: seconds slept after the given attempt
retry_wait(attempt_number) ==
    LET Clamp(x) == IF x < RetryWaitMin THEN RetryWaitMin
                    ELSE IF x > RetryWaitMax THEN RetryWaitMax ELSE x
    IN Clamp(RetryWaitMultiplier * 2 ^ (attempt_number - 1))

RECURSIVE RetryFrom(_, _)
\* the loop of tenacity around _invoke_with_retry, from the given attempt on;
\* reraise=True: the last exception is raised as it is
RetryFrom(passes, attempt_number) ==
    LET Tried(run) ==
            IF Returned(run.out) THEN run
            ELSE IF run.out.e \notin RetriedErrors \/ retry_stop(attempt_number) THEN run
            ELSE LET Again(rest) ==
                         [out |-> rest.out,
                          calls |-> run.calls
                                    \o <<Call("sleep", "retry", retry_wait(attempt_number))>>
                                    \o rest.calls]
                 IN Again(RetryFrom(passes, attempt_number + 1))
    IN Tried(with_fallbacks_invoke(passes[attempt_number]))

\* LLMWithRetry._invoke_with_retry
invoke_with_retry(passes) == RetryFrom(passes, 1)

\* LLMWithRetry.invoke
LLMWithRetry_invoke(retry_available, passes) ==
    IF retry_available THEN invoke_with_retry(passes)
    ELSE with_fallbacks_invoke(passes[1])

\* LLMWithRetry.__getattr__: ainvoke, astream and bind(...) are those of the
\* chain itself, which _invoke_with_retry does not wrap
LLMWithRetry_getattr_ainvoke(passes) == with_fallbacks_invoke(passes[1])

(***************************************************************************)
(* SpecRetry: one model call made through get_llm() / get_fast_llm(), by   *)
(* invoke or by ainvoke, against a provider that fails as it pleases       *)
(***************************************************************************)
RetryContent == Str("{\"use_rag\": false}")

PrimaryOutcomes == {LlmOk(RetryContent)} \cup {LlmFail(e) : e \in TransientErrors \cup OtherErrors}
FallbackOutcomes == {LlmOk(RetryContent), LlmFail("RateLimitError"), LlmFail("ValueError")}

\* the passes in which both models raise, and those that return
FailingPasses ==
    {Pass(p, f) : p \in PrimaryOutcomes \ {LlmOk(RetryContent)},
                  f \in FallbackOutcomes \ {LlmOk(RetryContent)}}
ReturningPasses ==
    {Pass(LlmOk(RetryContent), NoCall)}
    \cup {Pass(p, LlmOk(RetryContent)) : p \in PrimaryOutcomes \ {LlmOk(RetryContent)}}

\* what the provider does on each pass over the chain, one pass more than
\* tenacity allows; nothing is asked of it once a pass has returned
ProviderScripts ==
    {s \in [1..(RetryMaxAttempts + 1) -> FailingPasses \cup ReturningPasses] :
        \A i \in 1..RetryMaxAttempts :
            s[i] \in ReturningPasses => s[i + 1] = Pass(LlmOk(RetryContent), NoCall)}

LlmMethods == {"invoke", "ainvoke"}

InitRetry ==
    /\ pc = "llm_call"
    /\ payload \in {[method |-> m, retry_available |-> a] : m \in LlmMethods, a \in BOOLEAN}
    /\ redisMode = "off"
    /\ redisKV = <<>>
    /\ convLog = <<>>
    /\ local = NoLocal
    /\ state = NoState
    /\ events = <<>>
    /\ result = NoResult

\* llm.invoke(messages) or await llm.ainvoke(messages) on what get_llm returns
LlmCall ==
    /\ pc = "llm_call"
    /\ \E passes \in ProviderScripts :
       \E run \in {IF payload.method = "invoke"
                   THEN LLMWithRetry_invoke(payload.retry_available, passes)
                   ELSE LLMWithRetry_getattr_ainvoke(passes)} :
            /\ result' = run.out
            /\ events' = events \o run.calls
    /\ pc' = "llm_returned"
    /\ UNCHANGED <<payload, redisMode, redisKV, convLog, local, state>>

NextRetry == LlmCall

SpecRetry == InitRetry /\ [][NextRetry]_vars

(***************************************************************************)
(* SpecStore: two /chat requests of the same conversation served           *)
(* concurrently by handle_chat_non_stream on one event loop.  A step of a  *)
(* request runs it from one await on Redis to the next one; the Redis      *)
(* command takes effect when it is issued.                                 *)
(***************************************************************************)
StoreRequests == {"A", "B"}

StoreConversation == Str("c1")

\* the messages each request can carry: a greeting or thanks the fast path
\* answers, a question the full pipeline answers
StoreMessages(r) ==
    IF r = "A" THEN {<<"Bonjour">>, <<"devis">>} ELSE {<<"merci">>, <<"prix">>}

\* the text the synthesizer produces for a request
StoreSynthReply(r) == IF r = "A" THEN "Reponse a A." ELSE "Reponse a B."

\* lines 204 and 236: the route of a request and the reply produced for it
StoreRoute(p) == IF Truthy(heuristic_fast_reply(p.message)) THEN "fast" ELSE "full"
StoreReplyOf(r, p) ==
    IF Truthy(heuristic_fast_reply(p.message)) THEN heuristic_fast_reply(p.message).v
    ELSE StoreSynthReply(r)

\* the Redis commands of one store.add_message call (conversation_store.py
\* 52-63): nothing for an empty content, no expire when rpush raises
AddMessageCommands(mode, role, content, metadata) ==
    IF content = "" THEN <<>>
    ELSE <<[op |-> "rpush", role |-> role, content |-> content, metadata |-> metadata]>>
         \o (IF mode = "up" THEN <<[op |-> "expire"]>> ELSE <<>>)

\* lines 210-221 and 255-270: the Redis commands the handler awaits, in
\* order, once the reply is produced
HandlerCommands(mode, p, loc, reply) ==
    LET Built(route, enriched) ==
            (IF loc.cacheable /\ reply # "" /\ loc.normalized # ""
             THEN <<[op |-> "set",
                     entry |-> CacheEntry(reply, Dict([k \in {"route"} |-> Str(route)]))]>>
             ELSE <<>>)
            \o AddMessageCommands(mode, "user", Join(p.message), EmptyDict)
            \o AddMessageCommands(mode, "assistant", enriched.response,
                                  Dict([k \in {"route"} |-> Str(route)]))
    IN Built(StoreRoute(p), generate_response_with_actions(p.message, reply))

\* Redis after a command of a request
CommandLog(mode, log, cmd) ==
    IF cmd.op = "rpush"
    THEN store_add_message(mode, log, StoreConversation, cmd.role, cmd.content, cmd.metadata)
    ELSE log
CommandKV(mode, kv, normalized, cmd) ==
    IF cmd.op = "set" THEN cache_set(mode, kv, normalized, cmd.entry).kv ELSE kv

InitStore ==
    /\ pc = [r \in StoreRequests |-> "receive"]
    /\ payload \in [StoreRequests ->
                       {ChatInput(m, None, <<>>, StoreConversation, FALSE, FALSE, FALSE) :
                           m \in UNION {StoreMessages(r) : r \in StoreRequests}}]
    /\ \A r \in StoreRequests : payload[r].message \in StoreMessages(r)
    /\ redisMode \in RedisModes \ {"off"}
    /\ redisKV = <<>>
    /\ convLog = <<>>
    /\ local = [r \in StoreRequests |-> NoLocal]
    /\ state = NoState
    /\ events = <<>>
    /\ result = [r \in StoreRequests |-> NoResult]

\* lines 158-177: the history of the conversation is read, the request is
\* cacheable only when none is stored
StoreReceive(r) ==
    /\ pc[r] = "receive"
    /\ \E stored_history \in {store_get_history(redisMode, convLog, StoreConversation, HistoryLimit)} :
       \E history_dump \in {HistoryDump(payload[r], stored_history)} :
          local' = [local EXCEPT ![r] =
                       [normalized |-> normalize_question(payload[r].message),
                        stored_history |-> stored_history,
                        cacheable |-> is_cacheable(payload[r].metadata, history_dump)
                                      /\ stored_history = <<>>,
                        pending |-> <<>>]]
    /\ pc' = [pc EXCEPT ![r] = "cache_lookup"]
    /\ events' = Append(events, Call("store", "get_history", r))
    /\ UNCHANGED <<payload, redisMode, redisKV, convLog, state, result>>

\* lines 179-195: the cache lookup; a hit is answered without a word to the store
StoreCacheLookup(r) ==
    /\ pc[r] = "cache_lookup"
    /\ \E hit \in {IF local[r].cacheable THEN cache_get(redisMode, redisKV, local[r].normalized)
                   ELSE None} :
          IF hit # None
          THEN /\ pc' = [pc EXCEPT ![r] = "done"]
               /\ result' = [result EXCEPT ![r] =
                                Return(generate_response_with_actions(payload[r].message,
                                                                      hit.reply).response)]
               /\ events' = Append(events, Call("cache", "hit", r))
          ELSE /\ pc' = [pc EXCEPT ![r] = "replying"]
               /\ result' = result
               /\ events' = Append(events, Call("cache", "miss", r))
    /\ UNCHANGED <<payload, redisMode, redisKV, convLog, local, state>>

\* lines 197-255: the reply is produced (try_fast_path or synthesize returns)
\* and the handler runs on to the first Redis command it awaits
StoreReply(r) ==
    /\ pc[r] = "replying"
    /\ \E reply \in {StoreReplyOf(r, payload[r])} :
       \E pending \in {HandlerCommands(redisMode, payload[r], local[r], reply)} :
          /\ events' = Append(events, Call("reply", r, reply))
          /\ IF pending = <<>>
             THEN /\ pc' = [pc EXCEPT ![r] = "done"]
                  /\ result' = [result EXCEPT ![r] =
                                   Return(generate_response_with_actions(payload[r].message,
                                                                         reply).response)]
                  /\ UNCHANGED <<redisKV, convLog, local>>
             ELSE /\ pc' = [pc EXCEPT ![r] = "awaiting_redis"]
                  /\ convLog' = CommandLog(redisMode, convLog, pending[1])
                  /\ redisKV' = CommandKV(redisMode, redisKV, local[r].normalized, pending[1])
                  /\ local' = [local EXCEPT ![r] =
                                  [local[r] EXCEPT !.pending = Tail(pending)] @@ [reply |-> reply]]
                  /\ result' = result
    /\ UNCHANGED <<payload, redisMode, state>>

\* the awaited Redis command has answered: the handler runs on to the next
\* one, or returns its response (lines 272-286)
StoreResume(r) ==
    /\ pc[r] = "awaiting_redis"
    /\ IF local[r].pending = <<>>
       THEN /\ pc' = [pc EXCEPT ![r] = "done"]
            /\ result' = [result EXCEPT ![r] =
                             Return(generate_response_with_actions(payload[r].message,
                                                                   local[r].reply).response)]
            /\ UNCHANGED <<redisKV, convLog, local>>
       ELSE /\ pc' = pc
            /\ convLog' = CommandLog(redisMode, convLog, local[r].pending[1])
            /\ redisKV' = CommandKV(redisMode, redisKV, local[r].normalized, local[r].pending[1])
            /\ local' = [local EXCEPT ![r].pending = Tail(local[r].pending)]
            /\ result' = result
    /\ UNCHANGED <<payload, redisMode, state, events>>

NextStore ==
    \E r \in StoreRequests :
        \/ StoreReceive(r)
        \/ StoreCacheLookup(r)
        \/ StoreReply(r)
        \/ StoreResume(r)

SpecStore == InitStore /\ [][NextStore]_vars

(***************************************************************************)
(* SpecExpire: ConversationStore.add_message and clear_history against the *)
(* Redis key of one conversation, every command of which answers or raises *)
(* on its own, and the key of which Redis removes when its time is up      *)
(***************************************************************************)
\* the calls made to the store in one behaviour
MaxAdds == 3

\* ttl_seconds of the store (conversation_store.py line 31, 108)
ttl_seconds == 3600 * 24

\* the expiry Redis holds for the key: none for a key RPUSH has just created
Persistent == [expires |-> FALSE, seconds |-> 0]
KeyTtl(seconds) == [expires |-> TRUE, seconds |-> seconds]

ExpireRoles == {"user", "assistant"}
ExpireContents == {"", "Bonjour", "Quel devis."}

InitExpire ==
    /\ pc = "idle"
    /\ payload = [role |-> "user", content |-> ""]
    /\ redisMode = "up"
    /\ redisKV = <<>>
    /\ convLog = <<>>
    /\ local = [calls |-> 0]
    /\ state = Persistent
    /\ events = <<>>
    /\ result = NoResult

\* lines 52-59: add_message is called; an empty content returns at once
AddMessage ==
    /\ pc = "idle"
    /\ local.calls < MaxAdds
    /\ \E role \in ExpireRoles : \E content \in ExpireContents :
          /\ payload' = [role |-> role, content |-> content]
          /\ pc' = IF content = "" THEN "idle" ELSE "rpush"
          /\ result' = IF content = "" THEN Return(None) ELSE NoResult
    /\ local' = [local EXCEPT !.calls = @ + 1]
    /\ UNCHANGED <<redisMode, redisKV, convLog, state, events>>

\* line 61: await self._redis.rpush(key, json.dumps(message)); the except
\* clause of line 63 ends the call when it raises
Rpush ==
    /\ pc = "rpush"
    /\ \E ok \in BOOLEAN :
          /\ convLog' = IF ok THEN Append(convLog, StoreDumps(payload.role, payload.content, EmptyDict))
                        ELSE convLog
          /\ pc' = IF ok THEN "expire" ELSE "idle"
          /\ result' = IF ok THEN result ELSE Return(None)
          /\ events' = Append(events, Call("redis", "rpush", ok))
    /\ UNCHANGED <<payload, redisMode, redisKV, local, state>>

\* line 62: await self._redis.expire(key, ttl_seconds); the except clause of
\* line 63 swallows its failure
Expire ==
    /\ pc = "expire"
    /\ \E ok \in BOOLEAN :
          /\ state' = IF ok THEN KeyTtl(ttl_seconds) ELSE state
          /\ events' = Append(events, Call("redis", "expire", ok))
    /\ pc' = "idle"
    /\ result' = Return(None)
    /\ UNCHANGED <<payload, redisMode, redisKV, convLog, local>>

\* lines 84-90: clear_history deletes the key, and its expiry with it
ClearHistory ==
    /\ pc = "idle"
    /\ local.calls < MaxAdds
    /\ \E ok \in BOOLEAN :
          /\ convLog' = IF ok THEN <<>> ELSE convLog
          /\ state' = IF ok THEN Persistent ELSE state
          /\ events' = Append(events, Call("redis", "delete", ok))
    /\ local' = [local EXCEPT !.calls = @ + 1]
    /\ result' = Return(None)
    /\ UNCHANGED <<pc, payload, redisMode, redisKV>>

\* Redis removes a key whose time to live has run out
KeyExpires ==
    /\ state.expires
    /\ convLog # <<>>
    /\ convLog' = <<>>
    /\ state' = Persistent
    /\ events' = Append(events, Call("redis", "expired", TRUE))
    /\ UNCHANGED <<pc, payload, redisMode, redisKV, local, result>>

NextExpire ==
    \/ AddMessage
    \/ Rpush
    \/ Expire
    \/ ClearHistory
    \/ KeyExpires

SpecExpire == InitExpire /\ [][NextExpire]_vars

(***************************************************************************)
(* SpecClear: two requests without conversation handled concurrently by    *)
(* handle_chat_non_stream on one cache, either of them with clear_cache;   *)
(* each awaited cache command lets the other request run                   *)
(***************************************************************************)
ClearMessages == {<<"Bonjour">>, <<"devis">>}

InitClear ==
    /\ pc = [r \in StoreRequests |-> "receive"]
    /\ payload \in [StoreRequests ->
                       {ChatInput(m, None, <<>>, None, FALSE, c, FALSE) :
                           m \in ClearMessages, c \in BOOLEAN}]
    /\ redisMode \in RedisModes \ {"off"}
    /\ redisKV \in UNION {CachedEntries(p) : p \in {[message |-> m] : m \in ClearMessages}}
    /\ convLog = <<>>
    /\ local = [r \in StoreRequests |-> NoLocal]
    /\ state = NoState
    /\ events = <<>>
    /\ result = [r \in StoreRequests |-> NoResult]

\* lines 158-177: no conversation, so no stored history; cache.delete is
\* awaited when the request is cacheable and asks for it
ClearReceive(r) ==
    /\ pc[r] = "receive"
    /\ \E normalized \in {normalize_question(payload[r].message)} :
       \E cacheable \in {is_cacheable(payload[r].metadata, payload[r].history)} :
       \E deletes \in {cacheable /\ payload[r].clear_cache} :
          /\ local' = [local EXCEPT ![r] = [normalized |-> normalized, cacheable |-> cacheable]]
          /\ redisKV' = IF deletes THEN cache_delete(redisMode, redisKV, normalized).kv ELSE redisKV
          /\ events' = IF deletes THEN Append(events, Call("cache", "delete", r)) ELSE events
    /\ pc' = [pc EXCEPT ![r] = "cache_lookup"]
    /\ UNCHANGED <<payload, redisMode, convLog, state, result>>

\* lines 179-195: the cache lookup and the reply on a hit
ClearCacheLookup(r) ==
    /\ pc[r] = "cache_lookup"
    /\ \E hit \in {IF local[r].cacheable THEN cache_get(redisMode, redisKV, local[r].normalized)
                   ELSE None} :
          IF hit # None
          THEN /\ pc' = [pc EXCEPT ![r] = "done"]
               /\ result' = [result EXCEPT ![r] =
                                Return(generate_response_with_actions(payload[r].message,
                                                                      hit.reply).response)]
               /\ events' = Append(events, Call("cache", "hit", r))
          ELSE /\ pc' = [pc EXCEPT ![r] = "replying"]
               /\ result' = result
               /\ events' = Append(events, Call("cache", "miss", r))
    /\ UNCHANGED <<payload, redisMode, redisKV, convLog, local, state>>

\* lines 197-286: the reply is produced, written to the cache and returned
ClearReply(r) ==
    /\ pc[r] = "replying"
    /\ \E reply \in {StoreReplyOf(r, payload[r])} :
       \E writes \in {local[r].cacheable /\ reply # ""} :
       \E entry \in {CacheEntry(reply, Dict([k \in {"route"} |-> Str(StoreRoute(payload[r]))]))} :
          /\ redisKV' = IF writes THEN cache_set(redisMode, redisKV, local[r].normalized, entry).kv
                        ELSE redisKV
          /\ events' = events \o <<Call("reply", r, reply)>>
                \o (IF writes THEN <<Call("cache", "set", r)>> ELSE <<>>)
          /\ result' = [result EXCEPT ![r] =
                           Return(generate_response_with_actions(payload[r].message, reply).response)]
    /\ pc' = [pc EXCEPT ![r] = "done"]
    /\ UNCHANGED <<payload, redisMode, convLog, local, state>>

NextClear ==
    \E r \in StoreRequests :
        \/ ClearReceive(r)
        \/ ClearCacheLookup(r)
        \/ ClearReply(r)

SpecClear == InitClear /\ [][NextClear]_vars

(***************************************************************************)
(* agent/runtime.py: business_tools_node, the business rules (SpecRules)   *)
(***************************************************************************)
\* a key the payload does not hold
Absent == [t |-> "absent"]

\* the dict holding the keys of f that are not Absent
DictOf(f) == Dict([k \in {j \in DOMAIN f : f[j] # Absent} |-> f[k]])

\* (d.get(k) or "").strip() of a text field
StrippedField(d, k) == IF Truthy(Get(d, k)) THEN Strip(Get(d, k).v) ELSE ""

\* one entry of a list when the test holds
RuleIf(test, entry) == IF test THEN <<entry>> ELSE <<>>

\* lines 406-440 with the clauses of the invoice left out
missing_fields_without_invoice_clauses(doc) ==
    LET Fields(customer, supplier) ==
            RuleIf(~Truthy(Get(customer, "name")), "customer.name")
            \o RuleIf(~Truthy(Get(customer, "address")), "customer.address")
            \o RuleIf(~Truthy(Get(customer, "contact")), "customer.contact")
            \o RuleIf(~Truthy(Get(supplier, "name")), "supplier.name")
            \o RuleIf(~Truthy(Get(supplier, "address")), "supplier.address")
            \o RuleIf(~Truthy(Get(supplier, "contact")), "supplier.contact")
            \o RuleIf(~Truthy(Get(supplier, "siret")), "supplier.siret")
            \o RuleIf(~Truthy(Get(supplier, "tva_number")), "supplier.tva_number")
            \o RuleIf(~Truthy(Get(doc, "number")), "number")
            \o RuleIf(~Truthy(Get(doc, "date")), "date")
            \o RuleIf(~Truthy(Get(doc, "payment_terms")), "payment_terms")
            \o RuleIf(~Truthy(Get(doc, "line_items")), "line_items")
    IN Fields(Or(Get(doc, "customer"), EmptyDict), Or(Get(doc, "supplier"), EmptyDict))

\* lines 406-440: the missing fields of a payload
missing_fields_of(doc) ==
    LET Fields(customer, supplier) ==
            RuleIf(~Truthy(Get(customer, "name")), "customer.name")
            \o RuleIf(~Truthy(Get(customer, "address")), "customer.address")
            \o RuleIf(~Truthy(Get(customer, "contact")), "customer.contact")
            \o RuleIf(~Truthy(Get(supplier, "name")), "supplier.name")
            \o RuleIf(~Truthy(Get(supplier, "address")), "supplier.address")
            \o RuleIf(~Truthy(Get(supplier, "contact")), "supplier.contact")
            \o RuleIf(~Truthy(Get(supplier, "siret")), "supplier.siret")
            \o RuleIf(~Truthy(Get(supplier, "tva_number")), "supplier.tva_number")
            \o RuleIf(~Truthy(Get(doc, "number")), "number")
            \o RuleIf(~Truthy(Get(doc, "date")), "date")
            \o RuleIf(~Truthy(Get(doc, "payment_terms")), "payment_terms")
            \o (IF Get(doc, "doc_type") = Str("invoice")
                THEN RuleIf(~Truthy(Get(doc, "penalties_late_payment")),
                            "penalties_late_payment")
                     \o RuleIf(~Truthy(Get(doc, "professional_liability")),
                               "professional_liability")
                ELSE <<>>)
            \o RuleIf(~Truthy(Get(doc, "line_items")), "line_items")
    IN Fields(Or(Get(doc, "customer"), EmptyDict), Or(Get(doc, "supplier"), EmptyDict))

\* "".join(ch for ch in contact if ch.isdigit())
DigitChars == {"0", "1", "2", "3", "4", "5", "6", "7", "8", "9"}
DigitCount(s) == Cardinality({i \in 1..Len(s) : Ch(s, i) \in DigitChars})

PhoneDigits == 10

\* lines 444-459 (478-493): the issues of the customer
customer_issues(customer) ==
    LET Issues(name, contact, address) ==
            (IF name = "" THEN <<"Nom du client manquant.">>
             ELSE RuleIf(Find(name, " ") = 0, "Nom de famille manquant (ex: Jean Dupont)."))
            \o RuleIf(address = "", "Adresse du client manquante.")
            \o (IF contact = "" THEN <<"Contact client manquant (telephone ou email).">>
                ELSE RuleIf(Find(contact, "@") = 0 /\ DigitCount(contact) < PhoneDigits,
                            "Numero de telephone incomplet (10 chiffres)."))
    IN Issues(StrippedField(customer, "name"), StrippedField(customer, "contact"),
              StrippedField(customer, "address"))

\* str(idx) of the index of a line
IndexStr(idx) == <<"1", "2", "3", "4", "5", "6", "7", "8", "9">>[idx]

\* lines 466-475 (498-507): the issues of the lines
RECURSIVE LineIssuesFrom(_, _)
LineIssuesFrom(line_items, idx) ==
    IF idx > Len(line_items) THEN <<>>
    ELSE RuleIf(StrippedField(line_items[idx], "description") = "",
                "Ligne " \o IndexStr(idx) \o ": description manquante.")
         \o RuleIf(~Truthy(Get(line_items[idx], "quantity")),
                   "Ligne " \o IndexStr(idx) \o ": quantite manquante.")
         \o RuleIf(~Truthy(Get(line_items[idx], "unit_price_ht")),
                   "Ligne " \o IndexStr(idx) \o ": prix unitaire manquant.")
         \o LineIssuesFrom(line_items, idx + 1)

line_issues(line_items) ==
    IF line_items = <<>> THEN <<"Aucune ligne de produit n'est saisie.">>
    ELSE LineIssuesFrom(line_items, 1)

\* list(dict.fromkeys(xs)): the first occurrence of each entry
FromKeys(xs) ==
    LET First(i) == \A j \in 1..(i - 1) : xs[j] # xs[i]
        kept == {i \in 1..Len(xs) : First(i)}
        Nth(n) == CHOOSE i \in kept : Cardinality({j \in kept : j < i}) = n - 1
    IN [n \in 1..Cardinality(kept) |-> xs[Nth(n)]]

\* lines 442-533: the issues of the section under validation
section_issues_of(doc, validate_section) ==
    LET Issues(customer, supplier, line_items) ==
            (IF validate_section \in {"client", "customer"} THEN customer_issues(customer) ELSE <<>>)
            \o (IF validate_section \in {"chantier", "projet", "project"}
                THEN RuleIf(~Truthy(Get(doc, "project_label")), "Nom du projet manquant.")
                ELSE <<>>)
            \o (IF validate_section \in {"lignes", "items", "line_items"}
                THEN line_issues(line_items) ELSE <<>>)
            \o (IF validate_section \in {"global", "all", "final"}
                THEN customer_issues(customer)
                     \o RuleIf(~Truthy(Get(doc, "project_label")), "Nom du projet manquant.")
                     \o line_issues(line_items)
                     \o RuleIf(~Truthy(Get(supplier, "name")), "Nom du fournisseur manquant.")
                     \o RuleIf(~Truthy(Get(supplier, "address")), "Adresse du fournisseur manquante.")
                     \o RuleIf(~Truthy(Get(supplier, "contact")), "Contact fournisseur manquant.")
                     \o RuleIf(~Truthy(Get(supplier, "siret")), "SIRET fournisseur manquant.")
                     \o RuleIf(~Truthy(Get(supplier, "tva_number")), "TVA fournisseur manquante.")
                     \o RuleIf(~Truthy(Get(doc, "number")), "Numero du document manquant.")
                     \o RuleIf(~Truthy(Get(doc, "date")), "Date du document manquante.")
                     \o RuleIf(~Truthy(Get(doc, "payment_terms")),
                               "Conditions de paiement manquantes.")
                     \o (IF Get(doc, "doc_type") = Str("invoice")
                         THEN RuleIf(~Truthy(Get(doc, "penalties_late_payment")),
                                     "Penalites de retard manquantes.")
                              \o RuleIf(~Truthy(Get(doc, "professional_liability")),
                                        "Responsabilite civile pro manquante.")
                         ELSE <<>>)
                ELSE <<>>)
    IN FromKeys(Issues(Or(Get(doc, "customer"), EmptyDict),
                       Or(Get(doc, "supplier"), EmptyDict),
                       Or(Get(doc, "line_items"), List(<<>>)).v))

\* line 370: the intent of the state, of the normalized request, or "chat"
RulesIntent(st) == Or(Or(st.intent, st.normalized_intent), Str("chat")).v

\* validate_devis_tool on a document its schema refuses (tools.py 294-297)
ValidateRefused ==
    Dict([k \in {"valid", "errors", "issues", "totals"} |->
          CASE k = "valid" -> Bool(FALSE)
            [] k = "errors" -> List(<<Str("validation error")>>)
            [] k = "issues" -> List(<<>>)
            [] OTHER -> EmptyDict])

\* the tools business_tools_node invokes on a payload (lines 394-403)
RulesCleans(p) == Truthy(Get(p, "line_items"))
RulesValidates(p) == Truthy(Get(p, "customer")) \/ Truthy(Get(p, "line_items"))

\* business_tools_node: the update of a state holding no earlier results, given
\* what the tools return
business_tools_node(st, cleaned, totals, validation) ==
    IF RulesIntent(st) = "chat" /\ ~Truthy(st.structured_payload)
    THEN [tool_results |-> EmptyDict, totals |-> EmptyDict, corrections |-> List(<<>>),
          missing_fields |-> <<>>, section_issues |-> <<>>]
    ELSE IF Truthy(st.structured_payload)
    THEN [tool_results |-> [clean_lines |-> cleaned, totals |-> totals, validation |-> validation],
          totals |-> IF Truthy(totals) THEN Or(Get(totals, "totals"), EmptyDict) ELSE EmptyDict,
          corrections |-> IF Truthy(validation) THEN Or(Get(validation, "issues"), List(<<>>))
                          ELSE List(<<>>),
          missing_fields |-> missing_fields_of(st.structured_payload),
          section_issues |-> section_issues_of(st.structured_payload, st.validate_section),
          normalized |-> [structured_payload |-> st.structured_payload,
                          missing_fields |-> missing_fields_of(st.structured_payload)]]
    ELSE [tool_results |-> EmptyDict, totals |-> EmptyDict, corrections |-> List(<<>>),
          missing_fields |-> <<>>, section_issues |-> <<>>]

\* the fields of a structured payload and the values the form gives them
RulesFields ==
    {"customer", "supplier", "number", "date", "payment_terms", "doc_type",
     "penalties_late_payment", "professional_liability", "line_items"}

CustomerBlank ==
    Dict([k \in {"name", "address", "contact"} |-> IF k = "address" THEN None ELSE Str("")])
CustomerNamed ==
    Dict([k \in {"name", "address", "contact"} |->
          CASE k = "name" -> Str("Dupont") [] k = "address" -> Str("") [] OTHER -> Str("0102")])
SupplierBlank ==
    Dict([k \in {"name", "address", "contact", "siret", "tva_number"} |->
          IF k \in {"siret", "tva_number"} THEN None ELSE Str("")])
SupplierFull ==
    Dict([k \in {"name", "address", "contact", "siret", "tva_number"} |->
          CASE k = "name" -> Str("ACME") [] k = "address" -> Str("1 rue des Lilas")
            [] k = "contact" -> Str("a@b") [] k = "siret" -> Str("123") [] OTHER -> Str("FR1")])

RulesValues(field) ==
    CASE field = "customer" -> {Absent, EmptyDict, CustomerBlank, CustomerNamed}
      [] field = "supplier" -> {None, SupplierBlank, SupplierFull}
      [] field = "number" -> {Absent, Str(""), Str("D-1")}
      [] field = "date" -> {None, Str("2025-01-01")}
      [] field = "payment_terms" -> {Str(""), Str("30 jours")}
      [] field = "doc_type" -> {Absent, Str("quote"), Str("invoice")}
      [] field = "penalties_late_payment" -> {Absent, Str("3 fois le taux legal")}
      [] field = "professional_liability" -> {None, Str("RC Pro 123")}
      [] OTHER -> {Absent} \cup LineLists

\* the structured payloads of the state: none ({}), or one made of the fields
RulesPayloads ==
    {EmptyDict}
    \cup {DictOf([customer |-> c, supplier |-> s, number |-> n, date |-> d,
                  payment_terms |-> t, doc_type |-> y, penalties_late_payment |-> q,
                  professional_liability |-> r, line_items |-> l]) :
             c \in RulesValues("customer"), s \in RulesValues("supplier"),
             n \in RulesValues("number"), d \in RulesValues("date"),
             t \in RulesValues("payment_terms"), y \in RulesValues("doc_type"),
             q \in RulesValues("penalties_late_payment"),
             r \in RulesValues("professional_liability"),
             l \in RulesValues("line_items")}

RulesIntents == {<<None, None>>, <<Str("validate"), None>>, <<None, Str("validate")>>}
RulesSections == {"", "client", "global"}

InitRules ==
    /\ pc = "business_tools"
    /\ payload \in {[intent |-> i[1], normalized_intent |-> i[2], structured_payload |-> p,
                     validate_section |-> s] :
                       i \in RulesIntents, p \in RulesPayloads, s \in RulesSections}
    /\ redisMode = "off"
    /\ redisKV = <<>>
    /\ convLog = <<>>
    /\ local = NoLocal
    /\ state = NoState
    /\ events = <<>>
    /\ result = NoResult

BusinessTools ==
    /\ pc = "business_tools"
    /\ \E cleaned \in (IF RulesCleans(payload.structured_payload)
                       THEN ToolResults("clean_lines_tool") ELSE {EmptyDict}) :
       \E totals \in (IF RulesCleans(payload.structured_payload)
                      THEN ToolResults("calculate_totals_tool") ELSE {EmptyDict}) :
       \E validation \in (IF RulesValidates(payload.structured_payload)
                          THEN ToolResults("validate_devis_tool") \cup {ValidateRefused}
                          ELSE {EmptyDict}) :
          /\ state' = business_tools_node(payload, cleaned, totals, validation)
          /\ events' = RuleIf(RulesCleans(payload.structured_payload),
                              Call("tool", "clean_lines_tool", cleaned))
                       \o RuleIf(RulesCleans(payload.structured_payload),
                                 Call("tool", "calculate_totals_tool", totals))
                       \o RuleIf(RulesValidates(payload.structured_payload),
                                 Call("tool", "validate_devis_tool", validation))
    /\ pc' = "tools_done"
    /\ UNCHANGED <<payload, redisMode, redisKV, convLog, local, result>>

NextRules == BusinessTools

SpecRules == InitRules /\ [][NextRules]_vars

(***************************************************************************)
(* agent/tools.py: calculate_totals_tool (SpecTotals)                      *)
(* A Decimal is the pair of its coefficient and its number of decimals.    *)
(***************************************************************************)
Dec(n, e) == [n |-> n, e |-> e]

RECURSIVE Pow10(_)
Pow10(k) == IF k = 0 THEN 1 ELSE 10 * Pow10(k - 1)

\* the Decimal without its trailing zeros: Decimals compare by value
RECURSIVE DecNormal(_)
DecNormal(d) == IF d.e > 0 /\ d.n % 10 = 0 THEN DecNormal(Dec(d.n \div 10, d.e - 1)) ELSE d

\* the coefficient of a Decimal written with e decimals
DecScaled(a, e) == a.n * Pow10(e - a.e)

DecAdd(a, b) ==
    LET e == IF a.e > b.e THEN a.e ELSE b.e IN DecNormal(Dec(DecScaled(a, e) + DecScaled(b, e), e))
DecSub(a, b) ==
    LET e == IF a.e > b.e THEN a.e ELSE b.e IN DecNormal(Dec(DecScaled(a, e) - DecScaled(b, e), e))
DecMul(a, b) == DecNormal(Dec(a.n * b.n, a.e + b.e))
\* a / Decimal(100)
DecDivHundred(a) == DecNormal(Dec(a.n, a.e + 2))
\* a == b on Decimals
DecEq(a, b) == DecNormal(a) = DecNormal(b)

DecZero == Dec(0, 0)

\* float(d): the float is named by the shortest decimal it prints as
Float(d) == DecNormal(d)

\* Python numbers of a line: an int, or a float written with decimals
IntV(n) == [t |-> "int", v |-> n]
FloatV(n, e) == [t |-> "float", v |-> Dec(n, e)]

\* int(s) of a text of digits
RECURSIVE DigitsValue(_)
DigitsValue(s) ==
    IF s = "" THEN 0
    ELSE 10 * DigitsValue(SubSeq(s, 1, Len(s) - 1))
         + (CHOOSE d \in 0..9 : <<"0", "1", "2", "3", "4", "5", "6", "7", "8", "9">>[d + 1]
                                  = Ch(s, Len(s)))

IsDigits(s) ==
    s # "" /\ \A i \in 1..Len(s) : Ch(s, i) \in {"0", "1", "2", "3", "4", "5", "6", "7", "8", "9"}

\* _normalize_decimal: Decimal(str(value)), zero when str(value) is no number
normalize_decimal(value) ==
    CASE value.t = "int" -> Dec(value.v, 0)
      [] value.t = "float" -> value.v
      [] value.t = "str" -> IF IsDigits(value.v) THEN Dec(DigitsValue(value.v), 0) ELSE DecZero
      [] OTHER -> DecZero

\* line.get(key, default)
GetOr(d, k, default) == IF k \in DOMAIN d.v THEN d.v[k] ELSE default

DefaultVatRate == 20

\* lines 170-173: the numbers read off a line
TotalsQty(line) == normalize_decimal(Or(Or(Get(line, "quantity"), Get(line, "qty")), IntV(0)))
TotalsPrice(line) ==
    normalize_decimal(Or(Or(Get(line, "unit_price_ht"), Get(line, "unit_price")), IntV(0)))
TotalsVat(line, default_vat_rate) ==
    normalize_decimal(GetOr(line, "vat_rate",
                            IF default_vat_rate # None THEN default_vat_rate
                            ELSE IntV(DefaultVatRate)))
TotalsDiscount(line) == normalize_decimal(Or(Get(line, "discount_rate"), IntV(0)))

\* a line total that forgets the discount
line_total_ht_undiscounted(line) == DecMul(TotalsQty(line), TotalsPrice(line))

\* lines 175-176
line_total_ht(line) ==
    DecMul(DecMul(TotalsQty(line), TotalsPrice(line)),
           DecSub(Dec(1, 0), DecDivHundred(TotalsDiscount(line))))
line_total_tva(line, default_vat_rate) ==
    DecDivHundred(DecMul(line_total_ht(line), TotalsVat(line, default_vat_rate)))

\* lines 178-181: the issues of the line at position idx (counted from 0)
TotalsLineIssues(line, default_vat_rate, idx) ==
    (IF DecEq(TotalsQty(line), DecZero) \/ DecEq(TotalsPrice(line), DecZero)
     THEN <<[index |-> idx, issue |-> "zero_value_line", severity |-> "medium"]>> ELSE <<>>)
    \o (IF DecEq(TotalsVat(line, default_vat_rate), DecZero)
        THEN <<[index |-> idx, issue |-> "vat_missing_or_zero", severity |-> "low"]>> ELSE <<>>)

\* lines 186-195
TotalsNormalizedLine(line, default_vat_rate) ==
    [description |-> Get(line, "description"),
     quantity |-> Float(TotalsQty(line)),
     unit |-> Get(line, "unit"),
     unit_price_ht |-> Float(TotalsPrice(line)),
     vat_rate |-> Float(TotalsVat(line, default_vat_rate)),
     discount_rate |-> Float(TotalsDiscount(line))]

RECURSIVE TotalsSumHt(_, _)
TotalsSumHt(lines, k) ==
    IF k = 0 THEN DecZero ELSE DecAdd(TotalsSumHt(lines, k - 1), line_total_ht(lines[k]))

RECURSIVE TotalsSumTva(_, _, _)
TotalsSumTva(lines, default_vat_rate, k) ==
    IF k = 0 THEN DecZero
    ELSE DecAdd(TotalsSumTva(lines, default_vat_rate, k - 1),
                line_total_tva(lines[k], default_vat_rate))

RECURSIVE TotalsIssues(_, _, _)
TotalsIssues(lines, default_vat_rate, k) ==
    IF k = 0 THEN <<>>
    ELSE TotalsIssues(lines, default_vat_rate, k - 1)
         \o TotalsLineIssues(lines[k], default_vat_rate, k - 1)

\* calculate_totals_tool: the dict it returns
calculate_totals_tool(lines, default_vat_rate, doc_type) ==
    LET Out(total_ht, total_tva) ==
            [totals |-> [total_ht |-> Float(total_ht),
                         total_tva |-> Float(total_tva),
                         total_ttc |-> Float(DecAdd(total_ht, total_tva))],
             issues |-> TotalsIssues(lines, default_vat_rate, Len(lines)),
             lines |-> [i \in 1..Len(lines) |-> TotalsNormalizedLine(lines[i], default_vat_rate)],
             doc_type |-> Or(doc_type, Str("quote"))]
    IN Out(TotalsSumHt(lines, Len(lines)), TotalsSumTva(lines, default_vat_rate, Len(lines)))

MaxTotalsLines == 2   \* lines per call of calculate_totals_tool

\* lines as clients write them: the line of Scenario B, a discount, the
\* reduced VAT rate, the alias keys, a line without VAT rate, a VAT rate of
\* None, a quantity that is no number, a price written as text
TotalsLine(q, p, v, d) ==
    Dict([k \in {"description", "quantity", "unit_price_ht", "vat_rate", "discount_rate"} |->
          CASE k = "description" -> Str("Peinture") [] k = "quantity" -> q
            [] k = "unit_price_ht" -> p [] k = "vat_rate" -> v [] OTHER -> d])

TotalsLines ==
    {Line1,
     TotalsLine(IntV(3), IntV(50), IntV(20), IntV(10)),
     TotalsLine(IntV(2), IntV(15), FloatV(55, 1), IntV(0)),
     TotalsLine(IntV(0), IntV(20), IntV(0), IntV(0)),
     TotalsLine(Str("a venir"), Str("12"), None, None),
     Dict([k \in {"qty", "unit_price"} |-> IF k = "qty" THEN IntV(4) ELSE FloatV(125, 1)])}

TotalsInputs ==
    {[lines |-> l, default_vat_rate |-> r, doc_type |-> t] :
        l \in UNION {[1..k -> TotalsLines] : k \in 0..MaxTotalsLines},
        r \in {None, IntV(10)},
        t \in {None, Str("invoice")}}

InitTotals ==
    /\ pc = "totals_first"
    /\ payload \in TotalsInputs
    /\ redisMode = "off"
    /\ redisKV = <<>>
    /\ convLog = <<>>
    /\ local = [lines |-> payload.lines]
    /\ state = NoState
    /\ events = <<>>
    /\ result = NoResult

\* a call of the tool: it reads the lines it is handed and assigns to none
CalculateTotals ==
    /\ pc \in {"totals_first", "totals_second"}
    /\ events' = Append(events, Call("tool", "calculate_totals_tool",
                                     calculate_totals_tool(local.lines, payload.default_vat_rate,
                                                           payload.doc_type)))
    /\ pc' = IF pc = "totals_first" THEN "totals_second" ELSE "totals_done"
    /\ UNCHANGED <<payload, redisMode, redisKV, convLog, local, state, result>>

NextTotals == CalculateTotals

SpecTotals == InitTotals /\ [][NextTotals]_vars

(***************************************************************************)
(* agent/runtime.py: _maybe_parse_json (SpecJson)                          *)
(***************************************************************************)
\* json.loads(text): the value, or the exception it raises
json_loads(text) ==
    IF ~IsStr(text) THEN Raise("TypeError")
    ELSE IF JsonLoads(Strip(text.v)) = JsonError THEN Raise("JSONDecodeError")
    ELSE Return(JsonLoads(Strip(text.v)))

\* lines 52-57 without their except clause
runtime_brace_parse_uncaught(text) ==
    IF ~IsStr(text) THEN Raise("AttributeError")
    ELSE LET Between(start, end) ==
                 IF start # 0 /\ end # 0 /\ end > start
                 THEN json_loads(Str(SubSeq(text.v, start, end)))
                 ELSE Return(None)
         IN Between(Find(text.v, "{"), RFind(text.v, "}"))

\* lines 52-58: the second try; every exception in it gives None
runtime_brace_parse(text) ==
    IF Raised(runtime_brace_parse_uncaught(text)) THEN Return(None)
    ELSE runtime_brace_parse_uncaught(text)

\* runtime._maybe_parse_json: what the call returns or raises
runtime_maybe_parse_json(text) ==
    IF Returned(json_loads(text)) THEN json_loads(text) ELSE runtime_brace_parse(text)

\* the texts a model can answer with: a body between a prefix and a suffix
JsonBodies ==
    {"", "oups", "{oups}", JAnswer, JAnswerQuestion, JNoAnswer, JEmptyList, JRouteNone,
     JRouteTotals, JRouteTwoTools}
JsonPrefixes == {"", "Voici : ", "{a ", "} "}
JsonSuffixes == {"", " fin", " }", " {"}

JsonTexts ==
    {None} \cup {Str(a \o b \o c) : a \in JsonPrefixes, b \in JsonBodies, c \in JsonSuffixes}

InitJson ==
    /\ pc = "parse"
    /\ payload \in {[text |-> t] : t \in JsonTexts}
    /\ redisMode = "off"
    /\ redisKV = <<>>
    /\ convLog = <<>>
    /\ local = NoLocal
    /\ state = NoState
    /\ events = <<>>
    /\ result = NoResult

MaybeParseJson ==
    /\ pc = "parse"
    /\ result' = runtime_maybe_parse_json(payload.text)
    /\ pc' = "parsed"
    /\ UNCHANGED <<payload, redisMode, redisKV, convLog, local, state, events>>

NextJson == MaybeParseJson

SpecJson == InitJson /\ [][NextJson]_vars

(***************************************************************************)
(* agent/rag/local_docs.py, agent/rag/web_research.py and                  *)
(* agent/runtime.py: rag_retriever_node (SpecCascade).                     *)
(* A document on disk is its text and the scores, in hundredths and in     *)
(* decreasing order, of the chunks of it that match the query.             *)
(***************************************************************************)
\* the words of the questions put to the cascade
CascadeWords ==
    {"isolation", "fenetre", "carrelage", "fissure", "prise", "fuite", "artisan",
     "historique", "xyz"}

\* _DOMAIN_PATTERNS, in their order
DomainNames == <<"isolation", "menuiserie", "carrelage", "gros_oeuvre", "electricite", "plomberie">>
DOMAIN_PATTERN(domain, m) ==
    CASE domain = "isolation" -> AnyItem(m, {"isolation"})
      [] domain = "menuiserie" -> AnyItem(m, {"fenetre"})
      [] domain = "carrelage" -> AnyItem(m, {"carrelage"})
      [] domain = "gros_oeuvre" -> AnyItem(m, {"fissure"})
      [] domain = "electricite" -> AnyItem(m, {"prise"})
      [] OTHER -> AnyItem(m, {"plomberie", "fuite"})

\* detect_domain: the first domain whose pattern matches, or None
detect_domain(m) ==
    LET hits == {i \in 1..Len(DomainNames) : DOMAIN_PATTERN(DomainNames[i], m)}
    IN IF m = <<>> \/ hits = {} THEN None ELSE Str(DomainNames[Least(hits)])

\* _RELATED_DOCS.get(domain or "", ["corps_de_metier"])
RELATED_DOCS(domain) ==
    CASE domain = Str("isolation") -> <<"gros_oeuvre", "menuiserie", "corps_de_metier">>
      [] domain = Str("menuiserie") -> <<"isolation", "gros_oeuvre", "corps_de_metier">>
      [] domain = Str("carrelage") -> <<"gros_oeuvre", "isolation", "corps_de_metier">>
      [] domain = Str("gros_oeuvre") -> <<"isolation", "menuiserie", "corps_de_metier">>
      [] domain = Str("electricite") -> <<"gros_oeuvre", "corps_de_metier", "isolation">>
      [] domain = Str("plomberie") -> <<"gros_oeuvre", "carrelage", "corps_de_metier">>
      [] OTHER -> <<"corps_de_metier">>

DocName(stem) == stem \o ".md"

\* Path.exists() of a document
DocExists(disk, name) == disk[name] # Absent

FoundScore == 35         \* 0.35
FoundSecondScore == 30   \* 0.30
PrimarySnippets == 3
RelatedSnippets == 2
ReturnedSnippets == 4
MaxDocs == 3

LocalSnippet(source, level, score) == [source |-> source, level |-> level, score |-> score]

\* seq[:n]
Take(seq, n) == SubSeq(seq, 1, IF Len(seq) > n THEN n ELSE Len(seq))

\* _best_snippets_in_doc: the best chunks of the document, best first
best_snippets_in_doc(disk, name, level, max_snippets) ==
    Take([i \in 1..Len(disk[name].scores) |-> LocalSnippet(name, level, disk[name].scores[i])],
         max_snippets)

\* list.sort(key=score, reverse=True): stable, best first
RECURSIVE SortByScore(_)
SortByScore(snippets) ==
    IF snippets = <<>> THEN <<>>
    ELSE LET rest == SortByScore(SubSeq(snippets, 1, Len(snippets) - 1))
             x == snippets[Len(snippets)]
             before == {i \in 1..Len(rest) : rest[i].score >= x.score}
             at == IF before = {} THEN 0 ELSE Greatest(before)
         IN SubSeq(rest, 1, at) \o <<x>> \o SubSeq(rest, at + 1, Len(rest))

\* a level 2 that goes on through every related document
RECURSIVE cascade_related_unbounded(_, _, _, _, _, _)
cascade_related_unbounded(disk, related, i, max_docs, consulted, snippets) ==
    IF i > Len(related)
    THEN [snippets |-> Take(SortByScore(snippets), ReturnedSnippets), consulted |-> consulted]
    ELSE IF ~DocExists(disk, DocName(related[i]))
              \/ \E j \in 1..Len(consulted) : consulted[j] = DocName(related[i])
    THEN cascade_related_unbounded(disk, related, i + 1, max_docs, consulted, snippets)
    ELSE LET s2 == best_snippets_in_doc(disk, DocName(related[i]), 2, RelatedSnippets)
         IN IF s2 # <<>> /\ s2[1].score >= FoundScore
            THEN [snippets |-> s2, consulted |-> Append(consulted, DocName(related[i]))]
            ELSE cascade_related_unbounded(disk, related, i + 1, max_docs,
                                           Append(consulted, DocName(related[i])), snippets \o s2)

\* lines 288-306: the related documents from the i-th on, then the weak hints
RECURSIVE cascade_related(_, _, _, _, _, _)
cascade_related(disk, related, i, max_docs, consulted, snippets) ==
    IF i > Len(related) \/ Len(consulted) >= max_docs
    THEN [snippets |-> Take(SortByScore(snippets), ReturnedSnippets), consulted |-> consulted]
    ELSE IF ~DocExists(disk, DocName(related[i]))
              \/ \E j \in 1..Len(consulted) : consulted[j] = DocName(related[i])
    THEN cascade_related(disk, related, i + 1, max_docs, consulted, snippets)
    ELSE LET s2 == best_snippets_in_doc(disk, DocName(related[i]), 2, RelatedSnippets)
         IN IF s2 # <<>> /\ s2[1].score >= FoundScore
            THEN [snippets |-> s2, consulted |-> Append(consulted, DocName(related[i]))]
            ELSE cascade_related(disk, related, i + 1, max_docs,
                                 Append(consulted, DocName(related[i])), snippets \o s2)

\* lines 279-285: the primary document is consulted
CascadeHasPrimary(disk, domain, max_docs) ==
    /\ Truthy(domain)
    /\ DocExists(disk, DocName(domain.v))
    /\ 0 < max_docs

\* line 284: the primary document answers the question
PrimaryFound(s1) ==
    /\ s1 # <<>>
    /\ \/ s1[1].score >= FoundScore
       \/ Len(s1) >= 2 /\ s1[2].score >= FoundSecondScore

\* cascade_search: the snippets and the documents consulted, in order
cascade_search(disk, domain, max_docs) ==
    IF CascadeHasPrimary(disk, domain, max_docs)
    THEN LET s1 == best_snippets_in_doc(disk, DocName(domain.v), 1, PrimarySnippets)
         IN IF PrimaryFound(s1)
            THEN [snippets |-> s1, consulted |-> <<DocName(domain.v)>>]
            ELSE cascade_related(disk, RELATED_DOCS(domain), 1, max_docs,
                                 <<DocName(domain.v)>>, s1)
    ELSE cascade_related(disk, RELATED_DOCS(domain), 1, max_docs, <<>>, <<>>)

\* web_research_enabled, on the value of WEB_RESEARCH_ENABLED ("" when unset)
\* str.lower() on the values the configuration takes
EnvLower(v) == IF v = "ON" THEN "on" ELSE v

web_research_enabled(v) == EnvLower(Strip(v)) \in {"1", "true", "yes", "on"}

WebFinding(query, answer, sources) == [query |-> query, answer |-> answer, sources |-> sources]

\* what the provider can answer: no answer (a failed request, an empty
\* result), a summary, sources without a summary
WebAnswers(query) ==
    {None,
     WebFinding(query, "Synthese du web.", <<>>),
     WebFinding(query, "", <<[title |-> "Guide", url |-> "https://exemple.fr/guide"]>>)}

\* the configuration read from the environment
WebConfigs ==
    {[enabled |-> e, provider |-> p, api_key |-> k] :
        e \in {"", "0", "1", " ON "}, p \in {"tavily", "autre"}, k \in {"", "cle"}}

\* web_research_sync reaches the provider
WebSearches(config) ==
    web_research_enabled(config.enabled) /\ config.provider = "tavily" /\ Strip(config.api_key) # ""

\* web_research_sync: the finding, or None
web_research_sync(config, answer) == IF WebSearches(config) THEN answer ELSE None

\* domain.replace("_", " ").title()
DocTitle(domain) ==
    CASE domain = "gros_oeuvre" -> "Gros Oeuvre"
      [] domain = "corps_de_metier" -> "Corps De Metier"
      [] domain = "isolation" -> "Isolation"
      [] domain = "menuiserie" -> "Menuiserie"
      [] domain = "carrelage" -> "Carrelage"
      [] domain = "electricite" -> "Electricite"
      [] OTHER -> "Plomberie"

\* ensure_domain_doc: the disk with the document of the domain on it
ensure_domain_doc(disk, domain) ==
    IF DocExists(disk, DocName(domain)) THEN disk
    ELSE [disk EXCEPT ![DocName(domain)] = [text |-> "# " \o DocTitle(domain) \o "\n\n", scores |-> <<>>]]

\* strftime("%Y-%m-%d") of the day; time is not modelled
Today == "2025-01-01"

RECURSIVE FindingSourceLines(_)
FindingSourceLines(sources) ==
    IF sources = <<>> THEN ""
    ELSE (IF Strip(sources[1].url) = "" THEN ""
          ELSE "- " \o (IF Strip(sources[1].title) # "" THEN Strip(sources[1].title)
                        ELSE Strip(sources[1].url))
               \o " - " \o Strip(sources[1].url) \o "\n")
         \o FindingSourceLines(Tail(sources))

MaxNoteSources == 5

\* lines 159-178: the note written for a finding
FindingNote(finding) ==
    "\n" \o "## Ajouts (auto)\n" \o "- Date: " \o Today \o "\n"
    \o "- Requete: " \o finding.query \o "\n"
    \o (IF finding.answer # "" THEN "\n" \o "Synthese:\n" \o Strip(finding.answer) \o "\n" ELSE "")
    \o (IF finding.sources # <<>>
        THEN "\n" \o "Sources:\n" \o FindingSourceLines(Take(finding.sources, MaxNoteSources))
        ELSE "")

\* a write that replaces the text of the document by the note
append_finding_overwriting(disk, domain, finding, writes) ==
    IF writes = "no_directory" THEN [disk |-> disk, updated_doc |-> None]
    ELSE IF writes = "no_append" THEN [disk |-> ensure_domain_doc(disk, domain), updated_doc |-> None]
    ELSE [disk |-> [ensure_domain_doc(disk, domain) EXCEPT
                       ![DocName(domain)].text = FindingNote(finding)],
          updated_doc |-> Str(DocName(domain))]

\* what the file system does with the write: it takes it, it refuses to create
\* the document, it refuses to open the document for appending
WriteOutcomes == {"ok", "no_directory", "no_append"}

\* append_finding_to_doc: the disk afterwards and the name returned; an
\* exception of the file system is caught and None is returned
append_finding_to_doc(disk, domain, finding, writes) ==
    IF writes = "no_directory" THEN [disk |-> disk, updated_doc |-> None]
    ELSE IF writes = "no_append" THEN [disk |-> ensure_domain_doc(disk, domain), updated_doc |-> None]
    ELSE [disk |-> [ensure_domain_doc(disk, domain) EXCEPT
                       ![DocName(domain)].text = @ \o FindingNote(finding)],
          updated_doc |-> Str(DocName(domain))]

\* a message of the state
HumanMessage(m) == [role |-> "human", content |-> m]
AIMessage(m) == [role |-> "ai", content |-> m]

\* lines 273-279: the last human message that says something
RECURSIVE LastUserText(_)
LastUserText(messages) ==
    IF messages = <<>> THEN <<>>
    ELSE IF messages[Len(messages)].role = "human" /\ messages[Len(messages)].content # <<>>
    THEN messages[Len(messages)].content
    ELSE LastUserText(SubSeq(messages, 1, Len(messages) - 1))

\* lines 282-284: the domain of the question
CascadeDomain(text) ==
    IF detect_domain(text) = None /\ is_corps_metier_question(text)
    THEN Str("corps_de_metier") ELSE detect_domain(text)

\* line 272 and 281: the node runs the cascade
RunsCascade(st) ==
    /\ RulesIntent(st) = "chat"
    /\ ~Truthy(st.structured_payload)
    /\ LastUserText(st.messages) # <<>>

\* lines 288-301: the context made of the local snippets
CascadeContext(found) ==
    [i \in 1..Len(Take(found.snippets, ReturnedSnippets)) |->
        [content |-> found.snippets[i].source, source |-> found.snippets[i].source,
         level |-> found.snippets[i].level, strategy |-> "cascade",
         consulted |-> found.consulted, score |-> found.snippets[i].score]]

\* lines 307-320: the context made of a finding
WebContext(finding, updated_doc) ==
    <<[content |-> Strip(finding.answer), source |-> "web", level |-> 3, strategy |-> "cascade",
       query |-> finding.query, updated_doc |-> updated_doc, sources |-> finding.sources]>>

\* lines 324-331
needs_rag(st) ==
    \/ RulesIntent(st) \in {"prepare_devis", "validate", "analyze"} /\ Truthy(st.structured_payload)
    \/ st.messages # <<>> /\ Contains(st.messages[Len(st.messages)].content, {"historique"})
    \/ RulesIntent(st) = "prefill"

MinQueryLen == 3

\* lines 338-344: the query put to the vector store
RagQuery(st) ==
    LET name == Get(Or(Get(st.structured_payload, "customer"), EmptyDict), "name")
        label == Get(st.structured_payload, "project_label")
        parts == (IF Truthy(name) THEN <<name.v>> ELSE <<>>)
                 \o (IF Truthy(label) THEN <<label.v>> ELSE <<>>)
    IN IF parts # <<>> THEN JoinWith(parts, " ") ELSE st.summary

\* what the vector store does: not ready, failing, answering
RagClientOutcomes == {"not_ready", "raise", "empty", "results"}
RagResults(outcome) == IF outcome = "results" THEN <<[content |-> "Devis Dupont 2024", source |-> "supabase"]>> ELSE <<>>

NodeResult(rag_results) == [rag_context |-> rag_results, supabase_context |-> rag_results]

\* the documents on disk: a text, and the scores of its chunks for the query
CascadeDocNames ==
    {DocName(DomainNames[i]) : i \in 1..Len(DomainNames)} \cup {DocName("corps_de_metier")}

DocOnDisk(scores) == [text |-> "# Guide\n\nTexte du guide.\n", scores |-> scores]

PrimaryDocs == {Absent, DocOnDisk(<<>>), DocOnDisk(<<30, 20>>), DocOnDisk(<<34, 31>>), DocOnDisk(<<50, 10, 5>>)}
RelatedDocs == {Absent, DocOnDisk(<<>>), DocOnDisk(<<34, 31, 12>>), DocOnDisk(<<50, 10, 5>>)}

\* the disks on which only the documents the cascade can open for the domain vary
CascadeDisks(domain) ==
    LET primary == IF Truthy(domain) THEN {DocName(domain.v)} ELSE {}
        related == {DocName(RELATED_DOCS(domain)[i]) : i \in 1..Len(RELATED_DOCS(domain))} \ primary
    IN {[n \in CascadeDocNames |->
            IF n \in primary THEN f[n] ELSE IF n \in related THEN g[n] ELSE Absent] :
           f \in [primary -> PrimaryDocs], g \in [related -> RelatedDocs]}

CascadeMessages ==
    {<<>>} \cup {<<HumanMessage(<<w>>)>> : w \in CascadeWords}
    \cup {<<HumanMessage(<<"fuite", "isolation">>)>>,
          <<HumanMessage(<<"prise">>), AIMessage(<<"xyz">>), HumanMessage(<<>>)>>,
          <<AIMessage(<<"historique">>)>>}

\* the rest of the state: intent, structured payload, summary
CascadeStates ==
    {[intent |-> None, normalized_intent |-> None, structured_payload |-> EmptyDict, summary |-> ""],
     [intent |-> Str("chat"), normalized_intent |-> None,
      structured_payload |-> Dict([k \in {"customer"} |-> Customer]), summary |-> ""],
     [intent |-> Str("validate"), normalized_intent |-> None,
      structured_payload |-> Dict([k \in {"project_label"} |-> Str("Maison")]), summary |-> ""],
     [intent |-> Str("prefill"), normalized_intent |-> None, structured_payload |-> EmptyDict,
      summary |-> "ab"],
     [intent |-> None, normalized_intent |-> Str("prefill"), structured_payload |-> EmptyDict,
      summary |-> "Devis Dupont"]}

\* a disk without documents
EmptyDisk == [n \in CascadeDocNames |-> Absent]

CascadeInput(s, m, d) ==
    [intent |-> s.intent, normalized_intent |-> s.normalized_intent,
     structured_payload |-> s.structured_payload, summary |-> s.summary,
     messages |-> m, disk |-> d]

\* the requests: the disk varies where the node reads it
CascadeInputs ==
    UNION {{CascadeInput(s, m, d) :
               d \in IF RunsCascade(CascadeInput(s, m, EmptyDisk))
                      THEN CascadeDisks(CascadeDomain(LastUserText(m)))
                      ELSE {EmptyDisk}} :
           s \in CascadeStates, m \in CascadeMessages}

InitCascade ==
    /\ pc = "rag_retriever"
    /\ payload \in CascadeInputs
    /\ redisMode = "off"
    /\ redisKV = <<>>
    /\ convLog = <<>>
    /\ local = [disk |-> payload.disk]
    /\ state = NoState
    /\ events = <<>>
    /\ result = NoResult

\* lines 266-302: the local cascade; its snippets are the context
RagCascade ==
    /\ pc = "rag_retriever"
    /\ IF RunsCascade(payload)
       THEN \E found \in {cascade_search(local.disk, CascadeDomain(LastUserText(payload.messages)),
                                         MaxDocs)} :
               /\ events' = [i \in 1..Len(found.consulted) |->
                                Call("doc", found.consulted[i],
                                     IF i = 1 /\ CascadeHasPrimary(local.disk,
                                            CascadeDomain(LastUserText(payload.messages)), MaxDocs)
                                     THEN 1 ELSE 2)]
               /\ IF found.snippets # <<>>
                  THEN /\ state' = NodeResult(CascadeContext(found))
                       /\ pc' = "rag_done"
                  ELSE /\ state' = state
                       /\ pc' = "web_research"
       ELSE /\ pc' = "needs_rag"
            /\ UNCHANGED <<state, events>>
    /\ UNCHANGED <<payload, redisMode, redisKV, convLog, local, result>>

\* lines 304-321: the web research, and the note added to the document
WebResearch ==
    /\ pc = "web_research"
    /\ \E config \in WebConfigs, answer \in WebAnswers(Join(LastUserText(payload.messages))),
          writes \in WriteOutcomes :
       \E finding \in {web_research_sync(config, answer)} :
          IF finding # None
          THEN \E domain \in {Or(CascadeDomain(LastUserText(payload.messages)),
                                 Str("corps_de_metier")).v} :
               \E appended \in {append_finding_to_doc(local.disk, domain, finding, writes)} :
                  /\ local' = [local EXCEPT !.disk = appended.disk]
                  /\ events' = events \o <<Call("web", config, finding),
                                           Call("file", DocName(domain), appended.updated_doc)>>
                  /\ state' = NodeResult(WebContext(finding, appended.updated_doc))
                  /\ pc' = "rag_done"
          ELSE /\ events' = events \o (IF WebSearches(config)
                                       THEN <<Call("web", config, finding)>> ELSE <<>>)
               /\ pc' = "needs_rag"
               /\ UNCHANGED <<local, state>>
    /\ UNCHANGED <<payload, redisMode, redisKV, convLog, result>>

\* lines 323-363: the vector store, under the strict conditions
NeedsRag ==
    /\ pc = "needs_rag"
    /\ IF ~needs_rag(payload) \/ Len(RagQuery(payload)) < MinQueryLen
       THEN /\ state' = NodeResult(<<>>)
            /\ events' = events
       ELSE \E outcome \in RagClientOutcomes :
               /\ state' = NodeResult(RagResults(outcome))
               /\ events' = IF outcome = "not_ready" THEN events
                            ELSE Append(events, Call("rag", RagQuery(payload), outcome))
    /\ pc' = "rag_done"
    /\ UNCHANGED <<payload, redisMode, redisKV, convLog, local, result>>

NextCascade ==
    \/ RagCascade
    \/ WebResearch
    \/ NeedsRag

SpecCascade == InitCascade /\ [][NextCascade]_vars

(***************************************************************************)
(* agent/graph.py: synthesizer_node with the messages it sends (SpecSynth) *)
(***************************************************************************)
SYNTHESIZER_SYSTEM_PROMPT == "Tu es un assistant BTP."

SystemMessage(content) == [role |-> "system", content |-> content]

HistoryWindow == 6

\* seq[-n:]
LastN(seq, n) == SubSeq(seq, IF Len(seq) > n THEN Len(seq) - n + 1 ELSE 1, Len(seq))

\* lines 593-606: the turns of the history that have a text
RECURSIVE SynthHistoryMessages(_)
SynthHistoryMessages(history) ==
    IF history = <<>> THEN <<>>
    ELSE (IF Strip(history[1].content) = "" THEN <<>>
          ELSE IF history[1].role = "assistant" THEN <<[role |-> "ai", content |-> history[1].content]>>
          ELSE IF history[1].role = "system" THEN <<SystemMessage(history[1].content)>>
          ELSE <<[role |-> "human", content |-> history[1].content]>>)
         \o SynthHistoryMessages(Tail(history))

\* _build_messages_for_synthesis, for a state without payload, tool or context
build_messages_for_synthesis(st) ==
    <<SystemMessage(SYNTHESIZER_SYSTEM_PROMPT)>>
    \o SynthHistoryMessages(LastN(st.history, HistoryWindow))
    \o <<[role |-> "human", content |-> st.message]>>

\* one invocation of a model: the messages sent and what came back
Invoke(who, messages, out) == [ev |-> "llm", who |-> who, messages |-> messages, out |-> out]

\* a synthesizer that gives up on an empty answer
synthesizer_node_calls_no_fallback(st, llm, llm2) ==
    IF llm = LlmCtorError THEN <<>>
    ELSE <<Invoke("synthesizer", build_messages_for_synthesis(st), llm)>>

\* synthesizer_node: the invocations it makes
synthesizer_node_calls(st, llm, llm2) ==
    IF llm = LlmCtorError THEN <<>>
    ELSE <<Invoke("synthesizer", build_messages_for_synthesis(st), llm)>>
         \o (IF SynthCallsFallback(llm)
             THEN <<Invoke("synthesizer_fallback", build_messages_for_synthesis(st), llm2)>>
             ELSE <<>>)

SynthTurn(role, content) == [role |-> role, content |-> content]

SynthHistories ==
    {<<>>,
     <<SynthTurn("user", "Bonjour")>>,
     <<SynthTurn("assistant", "Salut"), SynthTurn("user", "  ")>>,
     <<SynthTurn("system", "s"), SynthTurn("user", "a"), SynthTurn("assistant", "b"),
       SynthTurn("user", "c"), SynthTurn("assistant", "d"), SynthTurn("user", "e"),
       SynthTurn("assistant", "f")>>}

SynthQuestions == {"", "Bonjour", "devis", "prix du carrelage", "merci"}

SynthPrimaryOutcomes ==
    {LlmCtorError, LlmRaise, LlmOk(None), LlmOk(Str(" \n")), LlmOk(Str(" Voici la reponse.\n")),
     LlmOk(List(<<Dict([k \in {"text"} |-> Str("Voici.")])>>))}

\* the forced fallback is built as _get_synth_llm built its own fallback a
\* moment before: its construction does not fail here
SynthForcedOutcomes ==
    {LlmRaise, LlmOk(None), LlmOk(Str("  ")), LlmOk(Str("Reponse courte. "))}

InitSynth ==
    /\ pc = "synthesizer"
    /\ payload \in {[message |-> q, history |-> h] : q \in SynthQuestions, h \in SynthHistories}
    /\ redisMode = "off"
    /\ redisKV = <<>>
    /\ convLog = <<>>
    /\ local = <<>>
    /\ state = NoState
    /\ events = <<>>
    /\ result = NoResult

\* reply = await synthesize(state)
SynthesizerNode ==
    /\ pc = "synthesizer"
    /\ \E llm \in SynthPrimaryOutcomes :
       \E llm2 \in (IF SynthCallsFallback(llm) THEN SynthForcedOutcomes ELSE {NoCall}) :
          /\ events' = synthesizer_node_calls(payload, llm, llm2)
          /\ result' = synthesize(llm, llm2)
    /\ pc' = "synth_done"
    /\ UNCHANGED <<payload, redisMode, redisKV, convLog, local, state>>

NextSynth == SynthesizerNode

SpecSynth == InitSynth /\ [][NextSynth]_vars

(***************************************************************************)
(* agent/graph.py: _heuristic_tool_choice on the payload read from the     *)
(* metadata (SpecHeuristic)                                                *)
(***************************************************************************)
HeuristicWords == {"valide", "corrige", "valid", "total", "xyz"}

HeuristicMetaKeys == {"structured_payload", "mode", "client_name", "line_items"}

InitHeuristic ==
    /\ pc = "heuristic"
    /\ payload \in {PlainCall(m, md) : m \in Messages(HeuristicWords, MaxWords),
                                       md \in Metadatas(HeuristicMetaKeys, MetaValues, MaxMetaKeys)}
    /\ redisMode = "off"
    /\ redisKV = <<>>
    /\ convLog = <<>>
    /\ local = NoLocal
    /\ state = BaseState(payload.message, <<>>, payload.metadata)
    /\ events = <<>>
    /\ result = NoResult

\* line 416: heuristic_tool = _heuristic_tool_choice(message, metadata, structured)
HeuristicToolChoice ==
    /\ pc = "heuristic"
    /\ result' = Return(heuristic_tool_choice(state.message, RouterBefore(state).metadata,
                                              RouterBefore(state).structured))
    /\ pc' = "chosen"
    /\ UNCHANGED <<payload, redisMode, redisKV, convLog, local, state, events>>

NextHeuristic == HeuristicToolChoice

SpecHeuristic == InitHeuristic /\ [][NextHeuristic]_vars

(***************************************************************************)
(* SpecLegacy: agent/runtime.py, the legacy graph of build_graph invoked   *)
(* turn after turn by invoke_agent on one thread id; the checkpointer      *)
(* keeps the value of every channel of AgentState from one turn to the     *)
(* next, and the input of a turn overwrites only the channels it names     *)
(***************************************************************************)
\* the turns of one thread
MaxTurns == 3

\* len(content) < 50 (line 130)
FastLlmMaxLen == 50

\* the messages of the turns; a pattern of simple_patterns occurs in a
\* message of this set exactly when it is one of its words
LongQuestion ==
    <<"quel", "taux", "de", "tva", "pour", "une", "renovation", "de", "toiture", "en", "ardoise">>
LegacyMessages == {<<"Bonjour">>, <<"merci">>, <<"prix">>, LongQuestion}

\* simple_patterns (lines 95-100), in the order of the dict
SimpleCategories == <<"greeting", "help", "thanks", "status">>
simple_patterns(category) ==
    CASE category = "greeting" -> {"bonjour", "salut", "hello", "hey", "coucou", "bonsoir"}
      [] category = "help" -> {"aide", "help", "comment", "que peux", "que sais", "commencer", "utiliser"}
      [] category = "thanks" -> {"merci", "thanks", "super", "parfait", "ok", "top"}
      [] OTHER -> {"statut", "etat", "ou en", "avancement"}

\* quick_replies (lines 112-117), accents and bullets written in ASCII
quick_replies(category) ==
    CASE category = "greeting" -> "Bonjour ! Je suis ton assistant BTP. Je peux t'aider a creer et valider des devis/factures. Que puis-je faire pour toi ?"
      [] category = "help" -> "Je peux :\n- Creer des devis et factures\n- Analyser des documents PDF/DOCX\n- Valider les montants et mentions obligatoires\n- Rechercher dans ton historique\n\nQue veux-tu faire ?"
      [] category = "thanks" -> "Avec plaisir ! N'hesite pas si tu as d'autres questions."
      [] OTHER -> "Pour te donner le statut, j'aurais besoin de savoir de quel devis/projet tu parles."

\* the categories a message matches, in the order of simple_patterns
MatchedCategories(m) ==
    LET Matches(category) == AnyItem(m, simple_patterns(category))
    IN SelectSeq(SimpleCategories, Matches)

\* the update a node returns: channels and their new values; {} is NoUpdate
NoUpdate == [k \in {} |-> None]
FastAnswer(reply) == [output |-> reply, messages |-> <<AIMessage(reply)>>, fast_path_used |-> TRUE]

\* lines 103-106: has_data; "metadata" is not a channel of AgentState, so
\* state.get("metadata") is None
LegacyHasData(st) == st.structured

\* fast_path_node calls the fast model (lines 130-134)
LegacyFastCallsModel(st) ==
    /\ st.messages # <<>>
    /\ ~(~LegacyHasData(st) /\ MatchedCategories(st.messages[Len(st.messages)].content) # <<>>)
    /\ MsgLen(st.messages[Len(st.messages)].content) < FastLlmMaxLen
    /\ ~LegacyHasData(st)

\* fast_path_node (lines 84-147): the update it returns
fast_path_node(st, llm) ==
    IF st.messages = <<>> THEN NoUpdate
    ELSE LET content == st.messages[Len(st.messages)].content
             matched == MatchedCategories(content)
         IN IF ~LegacyHasData(st) /\ matched # <<>> THEN FastAnswer(quick_replies(matched[1]))
            ELSE IF MsgLen(content) < FastLlmMaxLen /\ ~LegacyHasData(st) /\ llm.k = "ok"
            THEN FastAnswer(Strip(llm.content.v))
            ELSE NoUpdate

\* the channels after a node's update: add_messages appends to messages,
\* every other channel takes the value written and keeps it otherwise
ApplyUpdate(st, update) ==
    [c \in DOMAIN st |->
        IF c \notin DOMAIN update THEN st[c]
        ELSE IF c = "messages" THEN st[c] \o update[c]
        ELSE update[c]]

\* lines 830-837: the conditional edge after fast_path
AfterFastPath(st) == IF st.fast_path_used THEN "end" ELSE "input_normalizer"

LegacyFastOutcomes == {LlmRaise, LlmOk(Str(" Environ 50 euros. "))}

InitLegacy ==
    /\ pc = "idle"
    /\ payload = [message |-> <<>>, structured |-> FALSE]
    /\ redisMode = "off"
    /\ redisKV = <<>>
    /\ convLog = <<>>
    /\ local = [turn |-> 0, answered |-> FALSE]
    /\ state = [messages |-> <<>>, structured |-> FALSE, output |-> "", fast_path_used |-> FALSE]
    /\ events = <<>>
    /\ result = NoResult

\* invoke_agent (lines 866-890): the input of the turn, which names the
\* channels messages and normalized and not fast_path_used (api.py 800-809,
\* 1135-1141, 1229-1243), is written over the checkpoint of the thread
InvokeAgent ==
    /\ pc \in {"idle", "end"}
    /\ local.turn < MaxTurns
    /\ \E m \in LegacyMessages : \E structured \in BOOLEAN :
          /\ payload' = [message |-> m, structured |-> structured]
          /\ state' = ApplyUpdate(state, [messages |-> <<SystemMessage("SYSTEM_PROMPT"),
                                                         HumanMessage(m)>>,
                                          structured |-> structured])
    /\ local' = [turn |-> local.turn + 1, answered |-> FALSE]
    /\ events' = <<>>
    /\ result' = NoResult
    /\ pc' = "fast_path"
    /\ UNCHANGED <<redisMode, redisKV, convLog>>

\* the node fast_path and the edge that leaves it
FastPathNode ==
    /\ pc = "fast_path"
    /\ \E llm \in (IF LegacyFastCallsModel(state) THEN LegacyFastOutcomes ELSE {NoCall}) :
       \E update \in {fast_path_node(state, llm)} :
          /\ state' = ApplyUpdate(state, update)
          /\ local' = [local EXCEPT !.answered = "output" \in DOMAIN update]
          /\ events' = events
                \o (IF llm = NoCall THEN <<>> ELSE <<Call("llm", "fast", llm)>>)
                \o <<Call("node", "fast_path", "output" \in DOMAIN update)>>
          /\ pc' = AfterFastPath(ApplyUpdate(state, update))
          /\ result' = IF AfterFastPath(ApplyUpdate(state, update)) = "end"
                       THEN Return(ApplyUpdate(state, update).output) ELSE result
    /\ UNCHANGED <<payload, redisMode, redisKV, convLog>>

\* a node of the normal flow, followed by the edge of build_graph that
\* leaves it (lines 840-851)
LegacyNode(node, next) ==
    /\ pc = node
    /\ pc' = next
    /\ events' = Append(events, Call("node", node, next))
    /\ UNCHANGED <<payload, redisMode, redisKV, convLog, local, state, result>>

InputNormalizerNode == LegacyNode("input_normalizer", "rag_retriever")
RagRetrieverNode == LegacyNode("rag_retriever", "business_tools")
BusinessToolsNode == LegacyNode("business_tools", "agent_reasoning")
\* lines 845-848: "tool_calls" is not a channel of AgentState, so
\* state.get("tool_calls") is None and the edge leads to llm_synthesizer
AgentReasoningNode == LegacyNode("agent_reasoning", "llm_synthesizer")

\* llm_synthesizer_node writes the reply of the turn; the edge leads to END
LlmSynthesizerNode ==
    /\ pc = "llm_synthesizer"
    /\ \E reply \in {"Voici la reponse."} :
          /\ state' = ApplyUpdate(state, [output |-> reply, messages |-> <<AIMessage(reply)>>])
          /\ result' = Return(reply)
    /\ events' = Append(events, Call("node", "llm_synthesizer", "end"))
    /\ pc' = "end"
    /\ UNCHANGED <<payload, redisMode, redisKV, convLog, local>>

NextLegacy ==
    \/ InvokeAgent
    \/ FastPathNode
    \/ InputNormalizerNode
    \/ RagRetrieverNode
    \/ BusinessToolsNode
    \/ AgentReasoningNode
    \/ LlmSynthesizerNode

SpecLegacy == InitLegacy /\ [][NextLegacy]_vars

(***************************************************************************)
(* Properties of the router (SpecRouter)                                   *)
(***************************************************************************)
Routed == pc \in {"tools_node", "prepared"}

\* is an outcome of the routing model among the calls made ?
RouterModelSaid(content) ==
    \E i \in 1..Len(events) :
        /\ events[i].ev = "llm"
        /\ events[i].who = "router"
        /\ events[i].out = LlmOk(Str(content))

\* C1: whatever the message, the metadata and the outcome of the routing
\* model, the tool_call router_node returns is null or one {name, args}
\* mapping whose name is a tool of the registry
C1_ToolCallNullOrRegistered ==
    Routed =>
        \/ state.tool_call = None
        \/ /\ IsDict(state.tool_call)
           /\ DOMAIN state.tool_call.v = {"name", "args"}
           /\ IsStr(Get(state.tool_call, "name"))
           /\ Get(state.tool_call, "name").v \in AVAILABLE_TOOLS
           /\ IsDict(Get(state.tool_call, "args"))

\* the routing model proposed a tool that is not registered, or two tools,
\* and no tool call came out
C1_Witness ==
    /\ Routed
    /\ RouterModelSaid(JRouteUnknown) \/ RouterModelSaid(JRouteTwoTools)
    /\ state.tool_call = None

\* the argument each tool cannot run without
RequiredArgPresent(call) ==
    LET name == Get(call, "name")
        args == Get(call, "args")
    IN CASE name = Str("validate_devis_tool") -> IsDict(Get(args, "payload"))
         [] name \in {Str("calculate_totals_tool"), Str("clean_lines_tool")} -> IsList(Get(args, "lines"))
         [] name = Str("extract_pdf_tool") -> IsStr(Get(args, "file_path"))
         [] OTHER -> TRUE

\* C9: a tool call that comes out of _validate_tool_call carries the argument
\* its tool requires: a payload mapping, a list of lines, a file path
C9_RequiredArgsPresent ==
    (Routed /\ Truthy(state.tool_call)) => RequiredArgPresent(state.tool_call)

(***************************************************************************)
(* Properties of try_fast_path (SpecFast)                                  *)
(***************************************************************************)
FastReturned == pc = "returned"

\* C5: try_fast_path returns None for every message that matches the
\* full-pipeline gate by itself (_should_use_full_pipeline is true of the
\* message without metadata), whatever else the message contains
C5_GateReturnsNull ==
    (FastReturned /\ should_use_full_pipeline(payload.message, None))
        => result = Return(None)

\* the outcome of the cheap-model call of this run, NoCall when none was made
FastModelOutcome == IF events = <<>> THEN NoCall ELSE events[1].out

\* the text try_fast_path reads from the model's message
FastModelText ==
    IF FastModelOutcome.k = "ok" /\ IsStr(FastModelOutcome.content)
    THEN FastModelOutcome.content.v ELSE ""

\* does the content meet the {answer, question} contract ?
FastContractMet ==
    /\ FastModelText # ""
    /\ IsDict(fast_maybe_parse_json(FastModelText))
    /\ FastPathPayloadValid(fast_maybe_parse_json(FastModelText))

\* the model step failed: the call raised, the content is empty, or it does
\* not parse and validate
FastModelStepFailed ==
    /\ FastReturned
    /\ FastModelOutcome.k \in {"raise", "ok"}
    /\ ~FastContractMet

\* C6 as stated: every failure of the model step makes try_fast_path return None
C6_FailureReturnsNull ==
    FastModelStepFailed => result = Return(None)

\* C6: when the model call raises or its content is empty, try_fast_path
\* returns None; when the content does not parse and validate, it returns the
\* content compacted, and None only if the content is blank; it never raises
C6_FailureFallsBack ==
    FastModelStepFailed =>
        /\ Returned(result)
        /\ (FastModelText = "") => result.v = None
        /\ (FastModelText # "") => (result.v = None <=> Strip(FastModelText) = "")
        /\ (result.v # None) => IsStr(result.v)

\* a plain sentence came back instead of the JSON object, and is the reply
C6_Witness ==
    /\ FastModelStepFailed
    /\ FastModelText = "Un acompte est une avance."
    /\ result = Return(Str("Un acompte est une avance."))

(***************************************************************************)
(* Properties of the cache (SpecCache)                                     *)
(***************************************************************************)
\* C8 as stated: on an enabled cache, set then get gives back the reply
C8_RoundTripAlways ==
    (pc = "done" /\ "entry" \in DOMAIN local) =>
        /\ result.v # None
        /\ result.v.reply = local.entry.reply

\* C8: while Redis answers and the key is not empty, set then get gives back
\* an entry whose reply is the one written; with the empty key, or when Redis
\* fails, nothing is stored and get returns None
C8_RoundTrip ==
    (pc = "done" /\ "entry" \in DOMAIN local) =>
        IF redisMode = "up" /\ local.normalized # ""
        THEN /\ result.v # None
             /\ result.v.reply = local.entry.reply
        ELSE result.v = None

\* a reply with quotes came back as written, over an older entry
C8_Witness ==
    /\ pc = "done"
    /\ "entry" \in DOMAIN local
    /\ local.entry.reply = "Un \"acompte\" est une avance."
    /\ result.v # None
    /\ result.v.reply = local.entry.reply

(***************************************************************************)
(* Properties of one /chat request (Spec)                                  *)
(***************************************************************************)
IsToolEvent(e) == e.ev = "tool"
ToolEvents == SelectSeq(events, IsToolEvent)

\* the router and the tool stage of this request have run
ToolStageDone == state # NoState /\ pc \notin {"router_node", "tools_node"}

\* C2: in one run of the pipeline at most one tool is invoked; tools_node
\* invokes the tool named by tool_call, once, when tool_call is not null, and
\* invokes nothing and leaves tool_result null when it is; no other stage
\* invokes a tool
C2_AtMostOneToolInvocation ==
    /\ Len(ToolEvents) <= 1
    /\ (state = NoState \/ pc = "router_node") => ToolEvents = <<>>
    /\ ToolStageDone =>
          IF Truthy(state.tool_call)
          THEN ToolEvents = <<Call("tool", Get(state.tool_call, "name").v, Get(state.tool_call, "args"))>>
          ELSE ToolEvents = <<>> /\ state.tool_result = None

\* a request was answered after its one tool ran
C2_Witness ==
    /\ pc = "done"
    /\ Returned(result)
    /\ Len(ToolEvents) = 1
    /\ ToolEvents[1].who = "calculate_totals_tool"

\* the stage a call or a decision belongs to, in the order the specification
\* gives: cache 1, fast path 2, RAG gate 3, tool routing 4, tool execution 5,
\* synthesis 6; 0 for what belongs to no stage
StageAsSpecified(e) ==
    CASE e.ev = "cache" /\ e.who = "get" -> 1
      [] e.ev = "call" /\ e.who = "try_fast_path" -> 2
      [] e.ev = "llm" /\ e.who = "fast" -> 2
      [] e.ev \in {"decide_rag", "retriever"} -> 3
      [] e.ev = "llm" /\ e.who = "rag_classifier" -> 3
      [] e.ev = "decide_tool" -> 4
      [] e.ev = "llm" /\ e.who = "router" -> 4
      [] e.ev = "tool" -> 5
      [] e.ev = "call" /\ e.who \in {"synthesize", "stream_synthesize"} -> 6
      [] e.ev = "llm" /\ e.who \in {"synthesizer", "synthesizer_fallback"} -> 6
      [] OTHER -> 0

\* the same with the RAG gate and the tool routing as the one router stage
StageAsRun(e) ==
    CASE StageAsSpecified(e) \in {3, 4} -> 3
      [] StageAsSpecified(e) = 5 -> 4
      [] StageAsSpecified(e) = 6 -> 5
      [] OTHER -> StageAsSpecified(e)

\* the calls and the decisions that belong to a stage, in the order they happen
InStage(e) == StageAsSpecified(e) # 0
StageEvents == SelectSeq(events, InStage)

\* C3 as stated: the stages run in the order cache lookup, fast path, RAG
\* gate, tool routing, tool execution, synthesis
C3_StagesInSpecifiedOrder ==
    LET staged == StageEvents
    IN \A i \in 1..(Len(staged) - 1) :
          StageAsSpecified(staged[i]) <= StageAsSpecified(staged[i + 1])

IsFinalGate(e) == (e.ev = "decide_rag" /\ e.who = "gate") \/ e.ev = "retriever"

\* C3: the stages run in the order cache lookup, fast path, router, tool
\* execution, synthesis; inside the router the tool-routing decisions come
\* first and the final RAG gate and the retrieval come after them
C3_StagesInOrder ==
    LET staged == StageEvents
    IN /\ \A i \in 1..(Len(staged) - 1) :
             StageAsRun(staged[i]) <= StageAsRun(staged[i + 1])
       /\ \A i \in 1..(Len(staged) - 1) :
             IsFinalGate(staged[i]) => staged[i + 1].ev # "decide_tool"
       /\ \A i \in 1..Len(staged) :
             (StageAsRun(staged[i]) = 3 /\ (i = 1 \/ StageAsRun(staged[i - 1]) # 3))
                 => (staged[i].ev = "decide_tool" /\ staged[i].who = "heuristic")

\* a request went through the final RAG gate and was answered by the synthesizer
C3_Witness ==
    /\ pc = "done"
    /\ \E i \in 1..Len(events) : events[i].ev = "decide_rag" /\ events[i].who = "gate"
    /\ \E i \in 1..Len(events) : events[i].ev = "cache" /\ events[i].who = "get"
    /\ \E i \in 1..Len(events) : events[i].ev = "call" /\ events[i].who = "synthesize"

\* the stages after the cache lookup
RunsPastCache(evs) ==
    \E i \in 1..Len(evs) : StageAsSpecified(evs[i]) >= 2

\* the cache holds an entry for the message when the lookup starts
CacheHolds ==
    /\ pc = "cache_lookup"
    /\ Enabled
    /\ local.cacheable
    /\ CacheKey(local.normalized) \in DOMAIN redisKV

\* C4 as stated: with the cache enabled, the request cacheable and an entry
\* held for the normalized message, the cached reply is returned and no
\* later stage runs
C4_HitReturnsCachedReply ==
    [][CacheHolds =>
          /\ pc' = "done"
          /\ result'.v.reply = ObjectLoads(redisKV[CacheKey(local.normalized)]).v["reply"].v
          /\ ~RunsPastCache(events')]_vars

\* C4: with the cache enabled, the request cacheable, Redis answering and an
\* entry held for the normalized message, the handler returns the cached
\* reply as generate_response_with_actions hands it back (the quote-terms text
\* when the message asks for the definition of a quote term) and no later
\* stage runs
C4_HitReturnsEnrichedReply ==
    [][(CacheHolds /\ redisMode = "up") =>
          /\ pc' = "done"
          /\ Returned(result')
          /\ result'.v.reply =
                IF should_show_devis_terms_ui(payload.message)
                THEN build_devis_terms_ui_reply(payload.message)
                ELSE ObjectLoads(redisKV[CacheKey(local.normalized)]).v["reply"].v
          /\ ~RunsPastCache(events')]_vars

\* a hit was answered with the quote-terms text in place of the cached reply
C4_Witness ==
    /\ pc = "done"
    /\ Returned(result)
    /\ \E i \in 1..Len(events) :
          events[i].ev = "cache" /\ events[i].who = "get" /\ events[i].out # None
    /\ result.v.reply # CachedReply
    /\ ~RunsPastCache(events)

\* C7: cache.set is called, with the key of a message that is not empty, only
\* for requests without history (sent by the client or restored from the
\* store), without a structured payload that can be derived from the
\* metadata, and without file references
C7_SetOnlyForStateless ==
    \A i \in 1..Len(events) :
        (events[i].ev = "cache" /\ events[i].who = "set" /\ local.normalized # "") =>
            /\ payload.history = <<>>
            /\ local.stored_history = <<>>
            /\ IsNone(structured_from_metadata(payload.metadata))
            /\ IsNone(extract_first_file(payload.metadata))

\* the tool of this request raised and tools_node made it a result
ToolFailed ==
    /\ ToolStageDone
    /\ IsDict(state.tool_result)
    /\ DOMAIN state.tool_result.v = {"error", "tool"}
    /\ Len(ToolEvents) = 1

\* C10: when the tool raises, tool_result is {error, tool}, nothing is
\* propagated, and the request ends with a reply
C10_ToolFailureStillReplies ==
    (ToolFailed /\ pc \in {"done", "raised"}) => (pc = "done" /\ Returned(result))

(***************************************************************************)
(* Properties of the synthesizer and of the handlers (Spec)                *)
(***************************************************************************)
\* the synthesizer of this request was called (synthesize or stream_synthesize)
SynthesisRan ==
    \E i \in 1..Len(events) :
        events[i].ev = "call" /\ events[i].who \in {"synthesize", "stream_synthesize"}

\* the outcomes of the model invocations the synthesizer made, in order
IsSynthModelEvent(e) == e.ev = "llm" /\ e.who \in {"synthesizer", "synthesizer_fallback"}
SynthModelEvents == SelectSeq(events, IsSynthModelEvent)

\* one invocation failed or produced no visible text
SynthInvocationFailed(out) ==
    CASE out.k = "ok" -> Strip(coerce_text_content(out.content)) = ""
      [] out.k = "stream" -> out.fails \/ Strip(Concat(stream_synthesize(out).tokens)) = ""
      [] OTHER -> TRUE

SynthAllFailed ==
    /\ SynthesisRan
    /\ \A i \in 1..Len(SynthModelEvents) : SynthInvocationFailed(SynthModelEvents[i].out)

\* C11: the synthesizer never raises past its boundary, in either mode, and
\* when every model invocation failed or came back empty the caller receives
\* one of the fixed apologetic messages (read generously: the one asking to
\* try again or the one asking to rephrase)
C11_SynthesizerNeverRaises ==
    (SynthesisRan /\ pc # "prepared") =>
        /\ pc # "raised"
        /\ SynthAllFailed => local.reply \in {ReplySynthFailed, ReplySynthEmpty}

\* C12: handle_chat_non_stream always ends by returning a response object
\* that holds a reply; no exception of the cache, the conversation store, the
\* fast path, the router, the retriever, the tool or the synthesizer (the
\* construction of a model or retriever client included) leaves the handler
C12_NonStreamAlwaysResponds ==
    (~payload.stream /\ pc \in {"done", "raised"}) =>
        /\ pc = "done"
        /\ Returned(result)
        /\ "reply" \in DOMAIN result.v

(***************************************************************************)
(* Properties of a model call through LLMWithRetry (SpecRetry)             *)
(***************************************************************************)
LlmReturned == pc = "llm_returned"

IsPrimaryCall(e) == e.ev = "llm" /\ e.who = "primary"
IsFallbackCall(e) == e.ev = "llm" /\ e.who = "fallback"
PrimaryCalls == SelectSeq(events, IsPrimaryCall)

\* the primary model raised a transient provider error during the call
TransientSeen ==
    \E i \in 1..Len(events) :
        IsPrimaryCall(events[i]) /\ events[i].out.k = "raise" /\ events[i].out.e \in TransientErrors

\* the invocations of the primary model among the first n calls
PrimaryCallsBefore(n) == Len(SelectSeq(SubSeq(events, 1, n), IsPrimaryCall))

\* C13 as stated: on a transient provider error the model call is made at
\* most 3 times, the fallback model is invoked only once the 3 attempts are
\* used up, and the provider error is not raised to the caller
C13_RetryThenFallback ==
    (LlmReturned /\ TransientSeen) =>
        /\ Len(PrimaryCalls) <= RetryMaxAttempts
        /\ \A i \in 1..Len(events) :
              IsFallbackCall(events[i]) => PrimaryCallsBefore(i) = RetryMaxAttempts
        /\ ~(Raised(result) /\ result.e \in TransientErrors)

\* C13: a model call through LLMWithRetry invokes the primary model at most
\* 3 times; each attempt invokes the primary model and, as soon as it raises,
\* the fallback model; an attempt follows a failed one, after a wait of 2 to
\* 10 seconds, only for invoke with tenacity installed and for a provider
\* error, while ainvoke makes one attempt; when the last attempt fails the
\* error of its primary model is raised to the caller as it is
C13_RetryBounded ==
    LlmReturned =>
        /\ Len(PrimaryCalls) \in 1..RetryMaxAttempts
        /\ (payload.method = "ainvoke" \/ ~payload.retry_available) => Len(PrimaryCalls) = 1
        /\ IsPrimaryCall(events[1])
        /\ \A i \in 1..Len(events) :
              /\ IsPrimaryCall(events[i]) =>
                    IF events[i].out.k = "ok" THEN i = Len(events)
                    ELSE i < Len(events) /\ IsFallbackCall(events[i + 1])
              /\ IsFallbackCall(events[i]) =>
                    IF events[i].out.k = "ok" THEN i = Len(events)
                    ELSE i = Len(events)
                         \/ (events[i + 1].ev = "sleep"
                             /\ events[i - 1].out.e \in RetriedErrors
                             /\ payload.method = "invoke" /\ payload.retry_available)
              /\ events[i].ev = "sleep" =>
                    /\ events[i].out \in RetryWaitMin..RetryWaitMax
                    /\ i < Len(events) /\ IsPrimaryCall(events[i + 1])
        /\ IF events[Len(events)].out.k = "ok"
           THEN result = Return(RetryContent)
           ELSE /\ result = Raise(events[Len(events) - 1].out.e)
                /\ (payload.method = "invoke" /\ payload.retry_available
                    /\ result.e \in RetriedErrors) => Len(PrimaryCalls) = RetryMaxAttempts

\* three attempts failed on timeouts of the primary model, the fallback model
\* was tried in each of them, and the timeout reached the caller
C13_Witness ==
    /\ LlmReturned
    /\ payload.method = "invoke"
    /\ Len(PrimaryCalls) = RetryMaxAttempts
    /\ \A i \in 1..Len(PrimaryCalls) : PrimaryCalls[i].out = LlmFail("APITimeoutError")
    /\ Len(events) = 2 * RetryMaxAttempts + (RetryMaxAttempts - 1)
    /\ result = Raise("APITimeoutError")

(***************************************************************************)
(* Properties of the RAG and tool decisions of the router (SpecRouter)     *)
(***************************************************************************)
\* the metadata of the request carries validation mode
ValidationMode(metadata) ==
    /\ IsDict(metadata)
    /\ \/ Lower(PyStr(Or(Get(metadata, "mode"), Str("")))) \in {"validate", "validation"}
       \/ Truthy(Get(metadata, "validate_section"))

IsRetrieverCall(e) == e.ev = "retriever"
RetrieverCalls == SelectSeq(events, IsRetrieverCall)

\* C14: with validation mode in the metadata (mode = validate / validation,
\* or validate_section set) the router returns use_rag = false and performs
\* no retrieval, whatever the message contains
C14_ValidationModeNoRag ==
    (Routed /\ ValidationMode(payload.metadata)) =>
        /\ state.use_rag = FALSE
        /\ RetrieverCalls = <<>>

IsRouterModelCall(e) == e.ev = "llm" /\ e.who = "router"

\* C15: when the message is detected as a trade (corps de metier) question,
\* router_node returns use_rag = true and rag_filter_type = "corps_metier",
\* the one retriever it asks for is the one filtered on type = corps_metier,
\* and the routing model is not consulted, so it cannot override the decision
C15_TradeQuestionForcesCorpus ==
    is_corps_metier_question(payload.message) =>
        /\ SelectSeq(events, IsRouterModelCall) = <<>>
        /\ \A i \in 1..Len(events) :
              ~(events[i].ev = "llm" /\ events[i].who = "rag_classifier")
        /\ \A i \in 1..Len(RetrieverCalls) : RetrieverCalls[i].who = "corps_metier"
        /\ Routed =>
              /\ state.use_rag = TRUE
              /\ state.rag_filter_type = Str("corps_metier")
              /\ Len(RetrieverCalls) = 1

\* a plumbing question was routed to the trade corpus and came back with context
C15_Witness ==
    /\ Routed
    /\ is_corps_metier_question(payload.message)
    /\ state.use_rag = TRUE
    /\ state.rag_filter_type = Str("corps_metier")
    /\ Len(RetrieverCalls) = 1
    /\ RetrieverCalls[1].out = RetDocs(<<DocShort>>)
    /\ state.rag_context # <<>>

\* the heuristic tool decision of the router, as it was taken
HeuristicToolCall ==
    IF \E i \in 1..Len(events) : events[i].ev = "decide_tool" /\ events[i].who = "heuristic"
    THEN events[CHOOSE i \in 1..Len(events) :
                    events[i].ev = "decide_tool" /\ events[i].who = "heuristic"].out
    ELSE None

\* a technical question of the trade, without structured payload, history or
\* validation mode, for which the tool heuristic selects nothing
TechnicalQuestion ==
    /\ BTP_TECH_HINT_RE(payload.message)
    /\ payload.history = <<>>
    /\ ~ValidationMode(payload.metadata)
    /\ Routed
    /\ IsNone(state.structured_payload)
    /\ IsNone(HeuristicToolCall)

\* C16: for a message without structured payload and without history that
\* matches the trade-technical keywords of the RAG heuristic and triggers no
\* tool heuristic, router_node returns use_rag = true, whatever the routing
\* model answers and whether or not it fails
C16_TechnicalQuestionUsesRag ==
    TechnicalQuestion => state.use_rag = TRUE

\* metadata mode is "validate" and the structured payload handed to the
\* router holds line items
ValidateWithLines ==
    /\ IsDict(payload.metadata)
    /\ Lower(PyStr(Or(Get(payload.metadata, "mode"), Str("")))) = "validate"
    /\ IsDict(state.structured_payload)
    /\ Has(state.structured_payload, "line_items")

\* C17: with metadata mode "validate" and a structured payload that holds
\* line items, router_node selects validate_devis_tool with args.payload
\* equal to the structured payload and intent = validate, and does not call
\* the routing model
C17_ValidateModeSelectsValidateTool ==
    ValidateWithLines =>
        /\ SelectSeq(events, IsRouterModelCall) = <<>>
        /\ Routed =>
              /\ state.tool_call =
                    ToolCall(Str("validate_devis_tool"),
                             Dict([k \in {"payload"} |-> state.structured_payload]))
              /\ state.intent = "validate"

\* a quote with one line and no customer was sent for validation with a
\* message that does not ask for it, and validate_devis_tool was selected
C17_Witness ==
    /\ Routed
    /\ ValidateWithLines
    /\ ~VALIDATE_HINT_RE(payload.message)
    /\ Get(state.structured_payload, "line_items") = List(<<Line1>>)
    /\ ~Has(state.structured_payload, "customer")
    /\ Get(state.tool_call, "name") = Str("validate_devis_tool")
    /\ Get(Get(state.tool_call, "args"), "payload") = state.structured_payload
    /\ state.intent = "validate"

(***************************************************************************)
(* Properties of the static fast-path replies (Spec)                       *)
(***************************************************************************)
\* the request is answered by a static heuristic of the fast path: no
\* metadata, no history
HeuristicRequest ==
    /\ Truthy(heuristic_fast_reply(payload.message))
    /\ payload.metadata = None
    /\ payload.history = <<>>

IsModelCall(e) == e.ev = "llm"

\* the router, the retrieval, the tool execution or the synthesizer was invoked
RunsPastFastPath(evs) ==
    \E i \in 1..Len(evs) :
        \/ StageAsSpecified(evs[i]) >= 3
        \/ (evs[i].ev = "call" /\ evs[i].who = "prepare_state")

\* the entry the cache lookup of this request found, None without a hit
CacheHit ==
    IF \E i \in 1..Len(events) : events[i].ev = "cache" /\ events[i].who = "get"
    THEN events[CHOOSE i \in 1..Len(events) :
                    events[i].ev = "cache" /\ events[i].who = "get"].out
    ELSE None

\* C18 as stated: a request answered by a static heuristic, which no cached
\* entry answers first, returns the canned reply, with no model call and
\* without the router, the retrieval, the tool execution or the synthesizer
C18_HeuristicReturnsCannedReply ==
    (HeuristicRequest /\ CacheHit = None) =>
        /\ SelectSeq(events, IsModelCall) = <<>>
        /\ ~RunsPastFastPath(events)
        /\ pc # "raised"
        /\ pc = "done" => result.v.reply = heuristic_fast_reply(payload.message).v

\* C18: a request answered by a static heuristic makes no model call and
\* invokes neither the router, the retrieval, the tool execution nor the
\* synthesizer; it returns the canned reply as generate_response_with_actions
\* hands it back (the quote-terms text when the message also asks for the
\* definition of a quote term), or the cached reply handed back the same way
\* when the cache answers first
C18_HeuristicReplyNoModel ==
    HeuristicRequest =>
        /\ SelectSeq(events, IsModelCall) = <<>>
        /\ ~RunsPastFastPath(events)
        /\ pc # "raised"
        /\ pc = "done" =>
              /\ Returned(result)
              /\ result.v.reply =
                    generate_response_with_actions(
                        payload.message,
                        IF CacheHit = None THEN heuristic_fast_reply(payload.message).v
                        ELSE CacheHit.reply).response
              /\ ~should_show_devis_terms_ui(payload.message) =>
                    result.v.reply = (IF CacheHit = None
                                      THEN heuristic_fast_reply(payload.message).v
                                      ELSE CacheHit.reply)

\* "Bonjour" was answered with the canned greeting by the fast path
C18_Witness ==
    /\ pc = "done"
    /\ HeuristicRequest
    /\ payload.message = <<"Bonjour">>
    /\ CacheHit = None
    /\ \E i \in 1..Len(events) : events[i].ev = "call" /\ events[i].who = "try_fast_path"
    /\ result.v.reply = ReplyGreeting
    /\ SelectSeq(events, IsModelCall) = <<>>

(***************************************************************************)
(* Properties of concurrent requests of one conversation (SpecStore)       *)
(***************************************************************************)
\* the entries a request appends to the log of the conversation
StoreEntriesOf(r) ==
    {StoreDumps("user", Join(payload[r].message), EmptyDict),
     StoreDumps("assistant",
                generate_response_with_actions(payload[r].message,
                                               StoreReplyOf(r, payload[r])).response,
                Dict([k \in {"route"} |-> Str(StoreRoute(payload[r]))]))}

\* the positions of the log holding an entry of the request
StoreIndexesOf(r) == {i \in 1..Len(convLog) : convLog[i] \in StoreEntriesOf(r)}

\* the reply of request a was produced before the reply of request b
ReplyProducedBefore(a, b) ==
    \E i, j \in 1..Len(events) :
        /\ i < j
        /\ events[i].ev = "reply" /\ events[i].who = a
        /\ events[j].ev = "reply" /\ events[j].who = b

\* C19: for two requests of one conversation, if the reply of the first is
\* produced before the reply of the second, every message the first appends
\* to the log precedes every message the second appends, under any
\* interleaving of the two requests.
C19_AppendOrderMatchesReplyOrder ==
    \A a, b \in StoreRequests :
        (a # b /\ ReplyProducedBefore(a, b)) =>
            \A i \in StoreIndexesOf(a) : \A j \in StoreIndexesOf(b) : i < j

(***************************************************************************)
(* Properties of the business rules (SpecRules)                            *)
(***************************************************************************)
RulesDone == pc = "tools_done"

\* the fields every document requires, and those an invoice requires besides
RequiredFieldNames ==
    {"customer.name", "customer.address", "customer.contact",
     "supplier.name", "supplier.address", "supplier.contact", "supplier.siret",
     "supplier.tva_number", "number", "date", "payment_terms", "line_items"}
InvoiceFieldNames == {"penalties_late_payment", "professional_liability"}

IsInvoice(p) == Get(p, "doc_type") = Str("invoice")

\* the value of a required field of the payload, None when the payload or
\* the party does not hold it
RequiredValue(p, name) ==
    CASE name \in {"customer.name", "customer.address", "customer.contact"} ->
           IF IsDict(Get(p, "customer"))
           THEN Get(Get(p, "customer"), SubSeq(name, Len("customer.") + 1, Len(name))) ELSE None
      [] name \in {"supplier.name", "supplier.address", "supplier.contact", "supplier.siret",
                   "supplier.tva_number"} ->
           IF IsDict(Get(p, "supplier"))
           THEN Get(Get(p, "supplier"), SubSeq(name, Len("supplier.") + 1, Len(name))) ELSE None
      [] OTHER -> Get(p, name)

\* a structured payload is there and every field required of it is empty
AllRequiredEmpty(p) ==
    /\ Truthy(p)
    /\ \A name \in RequiredFieldNames : ~Truthy(RequiredValue(p, name))
    /\ IsInvoice(p) => \A name \in InvoiceFieldNames : ~Truthy(RequiredValue(p, name))

MissingFieldSet == {state.missing_fields[i] : i \in 1..Len(state.missing_fields)}

\* C20: for a structured payload in which every required field is empty,
\* the list of missing fields holds the name, address and contact of the
\* customer, the name, address, contact, SIRET and TVA number of the supplier,
\* the number, the date, the payment terms and the line items, and holds the
\* late-payment penalties and the professional liability exactly when the
\* document is an invoice.  (The empty dict is the state's way of holding
\* no structured payload at all.)
C20_MissingFieldsComplete ==
    (RulesDone /\ AllRequiredEmpty(payload.structured_payload)) =>
        MissingFieldSet = RequiredFieldNames
                          \cup (IF IsInvoice(payload.structured_payload)
                                THEN InvoiceFieldNames ELSE {})

C20_Witness ==
    /\ RulesDone
    /\ AllRequiredEmpty(payload.structured_payload)
    /\ IsInvoice(payload.structured_payload)
    /\ Get(payload.structured_payload, "customer") = CustomerBlank
    /\ InvoiceFieldNames \subseteq MissingFieldSet

(***************************************************************************)
(* Properties of calculate_totals_tool (SpecTotals)                        *)
(***************************************************************************)
TotalsCalls == SelectSeq(events, LAMBDA e : e.ev = "tool" /\ e.who = "calculate_totals_tool")

TotalsTwice == pc = "totals_done" /\ Len(TotalsCalls) = 2

\* the sums of the claim in thousandths and in millionths, computed on integers
ExpectedDecimals == [ht |-> 3, tva |-> 6]

ExpectedLineHt(line) ==
    LET Sum(q, p, d) ==
            q.n * p.n * (Pow10(d.e + 2) - d.n) * Pow10(ExpectedDecimals.ht - (q.e + p.e + d.e + 2))
    IN Sum(TotalsQty(line), TotalsPrice(line), TotalsDiscount(line))

ExpectedLineTva(line, default_vat_rate) ==
    LET Sum(v) == ExpectedLineHt(line) * v.n * Pow10(ExpectedDecimals.tva - ExpectedDecimals.ht - v.e - 2)
    IN Sum(TotalsVat(line, default_vat_rate))

RECURSIVE ExpectedHt(_, _)
ExpectedHt(lines, k) ==
    IF k = 0 THEN 0 ELSE ExpectedHt(lines, k - 1) + ExpectedLineHt(lines[k])

RECURSIVE ExpectedTva(_, _, _)
ExpectedTva(lines, r, k) ==
    IF k = 0 THEN 0 ELSE ExpectedTva(lines, r, k - 1) + ExpectedLineTva(lines[k], r)

JsonParsed == pc = "parsed"

\* the strict parse of the whole text succeeds
StrictParses(text) == IsStr(text) /\ JsonLoads(Strip(text.v)) # JsonError

\* the text from its first "{" to its last "}", "" when there is none
BraceText(text) ==
    IF IsStr(text) /\ Find(text.v, "{") # 0 /\ RFind(text.v, "}") > Find(text.v, "{")
    THEN SubSeq(text.v, Find(text.v, "{"), RFind(text.v, "}")) ELSE ""

BraceParses(text) == BraceText(text) # "" /\ JsonLoads(Strip(BraceText(text))) # JsonError

\* C22: _maybe_parse_json never raises; it returns the strict parse of the
\* whole text when that succeeds, else the parse of the text from the first
\* "{" to the last "}" when that succeeds, else None (so for an empty text
\* and for a text without braces).
C22_ParseFallbackOrder ==
    JsonParsed =>
        /\ Returned(result)
        /\ StrictParses(payload.text) => result.v = JsonLoads(Strip(payload.text.v))
        /\ (~StrictParses(payload.text) /\ BraceParses(payload.text)) =>
               result.v = JsonLoads(Strip(BraceText(payload.text)))
        /\ (~StrictParses(payload.text) /\ ~BraceParses(payload.text)) => result.v = None

\* a text whose brace-delimited part is no JSON either
C22_Witness ==
    /\ JsonParsed
    /\ payload.text = Str("Voici : " \o JAnswer \o " }")
    /\ result = Return(None)

\* a JSON object found between a prefix and a suffix
C22_WitnessExtracted ==
    /\ JsonParsed
    /\ payload.text = Str("Voici : " \o JAnswer \o " fin")
    /\ result = Return(JsonLoads(JAnswer))

(***************************************************************************)
(* Properties of the local cascade (SpecCascade)                           *)
(***************************************************************************)
\* the documents the cascade opened, in order
ConsultedDocs == SelectSeq(events, LAMBDA e : e.ev = "doc")

CascadeRan == pc # "rag_retriever" /\ RunsCascade(payload)

\* C23: whatever the domain of the question (none included) and whatever
\* documents are on disk, cascade_search opens at most 3 local documents for
\* a request and never opens the same document twice.
C23_ConsultedCapped ==
    CascadeRan =>
        /\ Len(ConsultedDocs) <= 3
        /\ \A i, j \in 1..Len(ConsultedDocs) :
              ConsultedDocs[i].who = ConsultedDocs[j].who => i = j

\* the cap is met: a weak primary document and two related documents opened,
\* a third related document on disk left closed
C23_Witness ==
    /\ CascadeRan
    /\ Len(ConsultedDocs) = 3
    /\ ConsultedDocs[1].who = DocName(CascadeDomain(LastUserText(payload.messages)).v)
    /\ \A i \in 1..3 :
          DocExists(payload.disk,
                    DocName(RELATED_DOCS(CascadeDomain(LastUserText(payload.messages)))[i]))

\* no domain: only the general document can be opened
C23_WitnessNoDomain ==
    /\ CascadeRan
    /\ CascadeDomain(LastUserText(payload.messages)) = None
    /\ Len(ConsultedDocs) = 1

\* the related documents the cascade opened (level 2)
RelatedConsulted == SelectSeq(ConsultedDocs, LAMBDA e : e.out = 2)

\* the best match of the primary document reaches the confidence threshold
PrimaryTopConfident ==
    LET domain == CascadeDomain(LastUserText(payload.messages))
    IN /\ Truthy(domain)
       /\ DocExists(payload.disk, DocName(domain.v))
       /\ payload.disk[DocName(domain.v)].scores # <<>>
       /\ payload.disk[DocName(domain.v)].scores[1] >= FoundScore

\* related documents are opened only under a primary match below the threshold
RelatedOnlyAfterWeakPrimary == CascadeRan /\ RelatedConsulted # <<>> => ~PrimaryTopConfident

\* C28: cascade_search opens related documents (level 2) only when the best
\* match of the primary document is below the confidence threshold, and it
\* opens at most two related documents in a call.
C28_RelatedOnlyWhenWeakAtMostTwo ==
    /\ RelatedOnlyAfterWeakPrimary
    /\ CascadeRan => Len(RelatedConsulted) <= 2

\* the calls of the provider and the writes of the documents
WebCalls == {i \in 1..Len(events) : events[i].ev = "web"}
FileWrites == {i \in 1..Len(events) : events[i].ev = "file"}

\* b starts with a
IsPrefix(a, b) == Len(a) <= Len(b) /\ (a = "" \/ Slice(b, 1, Len(a)) = a)

\* no document the cascade opened has a chunk for the question
NoLocalSnippet == \A i \in 1..Len(ConsultedDocs) : payload.disk[ConsultedDocs[i].who].scores = <<>>

\* the document a finding goes to
RelevantDoc ==
    LET domain == CascadeDomain(LastUserText(payload.messages))
    IN DocName(IF domain = None THEN "corps_de_metier" ELSE domain.v)

ToolInvocations == {i \in 1..Len(events) : events[i].ev = "tool"}

\* C30: in the legacy graph (fast_path, input_normalizer, rag_retriever,
\* business_tools, agent_reasoning, tools, llm_synthesizer) a request turn
\* invokes at most one domain tool.
C30_AtMostOneToolPerTurn == Cardinality(ToolInvocations) <= 1

(***************************************************************************)
(* Properties of synthesizer_node (SpecSynth)                              *)
(***************************************************************************)
\* the visible text of an answer
VisibleText(out) == IF out.k = "ok" THEN Strip(coerce_text_content(out.content)) ELSE ""

\* the primary call came back without exception and without visible text
PrimaryCameBackEmpty ==
    /\ pc = "synth_done"
    /\ events # <<>>
    /\ events[1].who = "synthesizer"
    /\ events[1].out.k = "ok"
    /\ VisibleText(events[1].out) = ""

\* C25: when the primary synthesis call succeeds with empty content, the
\* fallback model is invoked exactly once more, with the same messages; its
\* content, when not empty, is the reply; when it fails or is empty too the
\* reply is the fixed message asking to rephrase, and no other model is called.
C25_EmptyPrimaryOneFallback ==
    PrimaryCameBackEmpty =>
        /\ Len(events) = 2
        /\ events[2].who = "synthesizer_fallback"
        /\ events[2].messages = events[1].messages
        /\ Returned(result)
        /\ result.v = IF VisibleText(events[2].out) # ""
                      THEN VisibleText(events[2].out) ELSE ReplySynthEmpty

\* the fallback answered after an empty primary answer
C25_Witness ==
    /\ PrimaryCameBackEmpty
    /\ Len(events) = 2
    /\ VisibleText(events[2].out) # ""
    /\ result = Return(VisibleText(events[2].out))
    /\ Len(events[2].messages) > 2

\* the fallback failed too
C25_WitnessGivesUp ==
    /\ PrimaryCameBackEmpty
    /\ Len(events) = 2
    /\ events[2].out = LlmRaise
    /\ result = Return(ReplySynthEmpty)

(***************************************************************************)
(* Properties of the routing model (SpecRouter)                            *)
(***************************************************************************)
\* the invocations of the routing model, and the decisions of the heuristics
RouterModelCalls == SelectSeq(events, LAMBDA e : e.ev = "llm" /\ e.who = "router")
HeuristicDecisions == SelectSeq(events, LAMBDA e : e.ev = "decide_tool" /\ e.who = "heuristic")
TradeDecisions == SelectSeq(events, LAMBDA e : e.ev = "decide_rag" /\ e.who = "trade")
ModelToolDecisions == SelectSeq(events, LAMBDA e : e.ev = "decide_tool" /\ e.who = "llm")

\* the heuristics gave a valid tool call
HeuristicMatched == HeuristicDecisions # <<>> /\ HeuristicDecisions[1].out # None

\* the message is a trade question, for which the retrieval is forced
TradeQuestion == TradeDecisions # <<>> /\ TradeDecisions[1].out

\* the tool call is one the validator lets through
PassesValidator(call) ==
    /\ IsDict(call)
    /\ IsStr(Get(call, "name"))
    /\ Get(call, "name").v \in AVAILABLE_TOOLS
    /\ IsDict(Get(call, "args"))

\* what holds of the routing model under either reading: one call at most,
\* none after a valid heuristic tool call, and a proposed tool in the state
\* only as the validator returned it
RoutingModelGuarded ==
    /\ Len(RouterModelCalls) <= 1
    /\ HeuristicMatched => RouterModelCalls = <<>>
    /\ HeuristicMatched => state.tool_call = HeuristicDecisions[1].out
    /\ (RouterModelCalls # <<>> /\ state.tool_call # None) =>
          /\ ModelToolDecisions # <<>>
          /\ state.tool_call = ModelToolDecisions[1].out
          /\ PassesValidator(state.tool_call)

\* C26 as stated: the routing model is called exactly when no tool heuristic
\* matched
C26_ModelCalledIffNoHeuristic ==
    Routed =>
        /\ RouterModelCalls # <<>> <=> ~HeuristicMatched
        /\ RoutingModelGuarded

\* C26: the routing model is called exactly when the heuristics gave no valid
\* tool call and the message is not a trade question; it is called at most
\* once per request, never after a valid heuristic tool call, and a tool it
\* proposes reaches the state only as _validate_tool_call returned it.
C26_ModelCalledIffUndecided ==
    Routed =>
        /\ RouterModelCalls # <<>> <=> (~HeuristicMatched /\ ~TradeQuestion)
        /\ RoutingModelGuarded

\* the routing model proposed a tool and the validated call is in the state
C26_Witness ==
    /\ Routed
    /\ Len(RouterModelCalls) = 1
    /\ ~HeuristicMatched
    /\ RouterModelCalls[1].out = LlmOk(Str(JRouteLookup))
    /\ state.tool_call # None
    /\ Get(state.tool_call, "name") = Str("supabase_lookup_tool")

\* a trade question without heuristic match: the routing model is not asked
C26_WitnessTrade ==
    /\ Routed
    /\ ~HeuristicMatched
    /\ TradeQuestion
    /\ RouterModelCalls = <<>>

(***************************************************************************)
(* Properties of the heuristic tool choice (SpecHeuristic)                 *)
(***************************************************************************)
HeuristicChose == pc = "chosen"

ChoseValidate ==
    /\ HeuristicChose
    /\ result.v # None
    /\ Get(result.v, "name") = Str("validate_devis_tool")

\* the validation-mode flag of the request
ValidationFlagSet ==
    /\ IsDict(payload.metadata)
    /\ \/ Get(payload.metadata, "mode") \in {Str("validate"), Str("validation")}
       \/ Truthy(Get(payload.metadata, "validate_section"))

\* the message has a word in valid- or corrig-
ValidateWordInMessage ==
    \E i \in 1..Len(payload.message) : payload.message[i] \in {"valide", "corrige", "valid"}

\* the line items of the structured payload
PayloadLineItems ==
    IF IsDict(state.structured_payload) /\ IsList(Get(state.structured_payload, "line_items"))
    THEN Get(state.structured_payload, "line_items").v ELSE <<>>

\* the validate tool is chosen under the flag or the word, given line items
ValidateChosenWhenAsked ==
    (HeuristicChose /\ (ValidationFlagSet \/ ValidateWordInMessage) /\ PayloadLineItems # <<>>)
        => ChoseValidate

\* the validate tool is never chosen without a line item
ValidateOnlyWithLineItems == ChoseValidate => PayloadLineItems # <<>>

\* C27: the heuristics choose validate_devis_tool when the validation-mode
\* flag is set or the message has a "valide"/"corrige" word, and only if the
\* structured payload holds at least one line item; without line items the
\* validate tool is never chosen.
C27_ValidateIffAskedWithLineItems ==
    /\ ValidateChosenWhenAsked
    /\ ValidateOnlyWithLineItems

(***************************************************************************)
(* Properties of the two handlers on one request (SpecBoth)                *)
(***************************************************************************)
\* the request went through the JSON handler, then through the streaming one
BothHandled == payload.first # NoFirst /\ pc \in {"done", "raised"}

\* the writes to the cache and to the conversation store among the calls
IsWrite(e) ==
    /\ e.ev \in {"cache", "store"}
    /\ e.who \in {"set", "delete", "add_message", "clear_history"}
WritesOf(calls) == SelectSeq(calls, IsWrite)

\* corrections and totals of a response; the short responses carry none
CorrectionsOf(response) ==
    IF "corrections" \in DOMAIN response THEN response.corrections ELSE List(<<>>)
TotalsOf(response) ==
    IF "totals" \in DOMAIN response THEN response.totals ELSE EmptyDict

\* C24: for one request, on the same cache and store contents and with
\* models, retriever and tool answering the same, the final done event of
\* the streaming handler carries the reply, the corrections and the totals
\* of the response of the JSON handler, and both handlers make the same
\* writes to the cache and to the conversation store.
C24_StreamSameAsJson ==
    (BothHandled /\ payload.first.pc = "done") =>
        /\ pc = "done"
        /\ Returned(result)
        /\ result.v.reply = payload.first.result.v.reply
        /\ CorrectionsOf(result.v) = CorrectionsOf(payload.first.result.v)
        /\ TotalsOf(result.v) = TotalsOf(payload.first.result.v)
        /\ WritesOf(events) = WritesOf(payload.first.events)
        /\ redisKV = payload.first.kv
        /\ convLog = payload.first.log

\* both handlers answered, with different replies
StreamReplyDiffers ==
    /\ BothHandled
    /\ payload.first.pc = "done"
    /\ pc = "done"
    /\ result.v.reply # payload.first.result.v.reply

(***************************************************************************)
(* Properties of the cache and of the store within requests (Spec)         *)
(***************************************************************************)
\* the replies kept in the cache
CachedReplies ==
    {cache_payload_of(Str(redisKV[k])).reply :
        k \in {j \in DOMAIN redisKV : cache_payload_of(Str(redisKV[j])) # None}}

\* C31: the fixed replies the synthesizer gives when it fails (the apology
\* asking to try again, the message asking to rephrase) are never written to
\* the cache: every entry holds an answer of the fast path or of a synthesis
\* that succeeded.
C31_NoApologyCached == CachedReplies \cap {ReplySynthFailed, ReplySynthEmpty} = {}

(***************************************************************************)
(* Properties of two requests on one cache (SpecTwo)                       *)
(***************************************************************************)
\* the second request was answered from the cache
SecondServedFromCache ==
    /\ payload.first # NoFirst
    /\ pc = "done"
    /\ "cache" \in DOMAIN result.v.raw_output

\* what of the metadata reaches the models and the routing: role and mode
AnswerInputs(metadata) ==
    [user_role |-> IF IsDict(metadata) THEN Get(metadata, "user_role") ELSE None,
     mode |-> IF IsDict(metadata) THEN Get(metadata, "mode") ELSE None]

\* C32: a reply served from the cache was computed for a request with the
\* same answer-influencing metadata (user_role, mode): of two cacheable
\* requests with the same normalized message and different such metadata,
\* neither receives the reply computed for the other.
C32_HitOnlySameMetadata ==
    SecondServedFromCache =>
        AnswerInputs(payload.metadata) = AnswerInputs(payload.first.metadata)

(***************************************************************************)
(* Properties of the fast path under metadata (SpecFast)                   *)
(***************************************************************************)
\* the metadata carries fields of a document, the validation mode or files
CarriesDocumentOrMode ==
    /\ IsDict(payload.metadata)
    /\ \/ IsDict(Get(payload.metadata, "structured_payload"))
       \/ \E k \in {"customer_name", "client_name", "supplier_name", "line_items", "items",
                    "doc_type", "docType", "validate_section", "mode", "files"} :
             Has(payload.metadata, k)

\* C33: a request whose metadata carries structured-document fields, the
\* validation mode or file references is never answered by the fast path,
\* whatever its message (a greeting, a thanks word, an empty message): it
\* reaches the router.
C33_DocumentRequestsSkipFastPath ==
    (FastReturned /\ CarriesDocumentOrMode) => result = Return(None)

(***************************************************************************)
(* Properties of the conversation log written by a request (Spec)          *)
(***************************************************************************)

\* the request ended with a reply, for a named conversation, on a Redis that
\* answers every command
RepliedInConversation ==
    /\ pc = "done"
    /\ Returned(result)
    /\ redisMode = "up"
    /\ Truthy(local.conversation_id)

\* the request was answered from the cache (lines 180-193)
AnsweredFromCache ==
    /\ pc = "done"
    /\ \E i \in 1..Len(events) :
          events[i].ev = "cache" /\ events[i].who = "get" /\ events[i].out # None

\* what the log held when the request arrived, after clear_history if asked
LogsBefore == {<<>>, PriorExchange}

\* the user message followed by the assistant reply, as add_message dumps them
ExchangesOf(message, reply) ==
    {<<StoreDumps("user", message, EmptyDict),
       StoreDumps("assistant", reply, Dict([k \in {"route"} |-> Str(route)]))>> :
        route \in {"hit", "fast", "full"}}

\* C34: with the store enabled and a conversation id given, every request
\* that returns a reply (cache hit, fast path or full pipeline) appends
\* exactly two messages to the log of the conversation: the user message
\* followed by the assistant reply.
C34_ReplyAppendsUserThenAssistant ==
    RepliedInConversation =>
        \E before \in LogsBefore :
        \E exchange \in ExchangesOf(Join(payload.message), result.v.reply) :
            convLog = before \o exchange

\* the positions of the log holding the user message of the request, and
\* those holding its assistant reply
StoreUserIndexes(r) ==
    {i \in 1..Len(convLog) : convLog[i] = StoreDumps("user", Join(payload[r].message), EmptyDict)}
StoreAssistantIndexes(r) == StoreIndexesOf(r) \ StoreUserIndexes(r)

\* C35: the user message and the assistant reply appended by one request
\* are adjacent in the log of the conversation, even when two requests of
\* the same conversation run concurrently and interleave at their awaits.
C35_ExchangeAdjacentInLog ==
    \A r \in StoreRequests :
        \A u \in StoreUserIndexes(r) : \A a \in StoreAssistantIndexes(r) : a = u + 1

(***************************************************************************)
(* Properties of the expiry of the conversation key (SpecExpire)           *)
(***************************************************************************)
\* no call to the store is in flight
StoreIdle == pc = "idle"

\* C36: every conversation key that holds at least one message has an
\* expiry set, whatever the Redis commands of add_message did, a failure of
\* expire after a successful rpush included: once add_message has returned,
\* a log that exists has a time to live.
C36_LogHasTtl ==
    (StoreIdle /\ convLog # <<>>) => state.expires

(***************************************************************************)
(* Properties of clear_cache under concurrency (SpecClear)                 *)
(***************************************************************************)
\* the request was answered from the cache
ClearServedFromCache(r) ==
    \E i \in 1..Len(events) :
        events[i].ev = "cache" /\ events[i].who = "hit" /\ events[i].out = r

\* the request asked for its cache entry to be cleared and is cacheable
ClearsItsEntry(r) ==
    /\ pc[r] = "done"
    /\ payload[r].clear_cache
    /\ local[r].cacheable

\* C37: a cacheable request with clear_cache = true never returns a cached
\* reply for its key, even when another request writes that key between the
\* delete and the lookup of this one; its reply is always freshly computed.
C37_ClearCacheNeverHits ==
    \A r \in StoreRequests : ClearsItsEntry(r) => ~ClearServedFromCache(r)

(***************************************************************************)
(* Properties of the model calls of the chat pipeline (SpecRetry)          *)
(***************************************************************************)
\* the model calls of the chat pipeline: get_fast_llm(...).bind(max_tokens=n)
\* followed by await llm.ainvoke(...) (fast_path.py 270-272, graph.py 444-447,
\* rag_classifier.py 70-72)
PipelineCall == payload.method = "ainvoke"

\* the first attempt failed on a provider error that the policy retries: the
\* primary model raised it and the fallback model raised too
FirstAttemptFailed ==
    /\ Len(events) >= 2
    /\ IsPrimaryCall(events[1]) /\ events[1].out.k = "raise" /\ events[1].out.e \in RetriedErrors
    /\ IsFallbackCall(events[2]) /\ events[2].out.k = "raise"

\* C38: the bounded-retry policy of LLMWithRetry applies to every model call
\* of the chat pipeline (fast-path answer, routing model, RAG classifier),
\* those made through .bind(...) and through ainvoke included: with tenacity
\* installed, a call whose first attempt fails on a provider error is
\* attempted again.
C38_RetryAppliesToPipelineCalls ==
    (LlmReturned /\ PipelineCall /\ payload.retry_available /\ FirstAttemptFailed) =>
        /\ Len(PrimaryCalls) >= 2
        /\ \E i \in 1..Len(events) : events[i].ev = "sleep"

(***************************************************************************)
(* Properties of the turns of the legacy graph (SpecLegacy)                *)
(***************************************************************************)
\* the nodes run in the turn
NodesRun == {events[i].who : i \in {j \in 1..Len(events) : events[j].ev = "node"}}

\* the turn is over and fast_path_node did not answer it
TurnNotAnsweredByFastPath == pc = "end" /\ ~local.answered

\* C39: in the legacy graph with a persistent checkpointer, a turn that the
\* fast path does not answer continues to input_normalizer and reaches
\* llm_synthesizer, whether or not an earlier turn of the same thread id was
\* answered by the fast path.
C39_UnansweredTurnReachesSynthesizer ==
    TurnNotAnsweredByFastPath => {"input_normalizer", "llm_synthesizer"} \subseteq NodesRun

(***************************************************************************)
(* Properties of the events of the streaming handler (Spec)                *)
(***************************************************************************)
IsDelta(e) == e.ev = "sse" /\ e.who = "delta"

\* the texts of the delta events sent on the stream, in order
DeltaTexts == [i \in 1..Len(SelectSeq(events, IsDelta)) |-> SelectSeq(events, IsDelta)[i].out]

\* the streaming handler has sent its done event
StreamDone == pc = "done" /\ payload.stream /\ Returned(result)

\* C40: on the streaming path, on every route (cache hit, fast, full), the
\* reply of the final done event equals the concatenation of the texts of
\* the delta events sent before it, up to surrounding whitespace.
C40_DoneReplyIsDeltasJoined ==
    StreamDone => Strip(result.v.reply) = Strip(Concat(DeltaTexts))

====
